---- MODULE Spec2Model ----
(***************************************************************************)
(* Curing-cabinet airflow manifold generator.                              *)
(*                                                                         *)
(* Three parts of the repository are modelled:                             *)
(*   - the generation entry points (generate_all_parts of the three        *)
(*     variants and generate_split_base): specification Spec;              *)
(*   - the area helpers and verify_speed_multiplier: specification         *)
(*     SpecArea;                                                           *)
(*   - the snap-fit builders and every inline row of tabs or slots:        *)
(*     specification SpecSnap.                                             *)
(* Lengths are exact rationals <<numerator, denominator>> in millimetres.  *)
(***************************************************************************)
EXTENDS Integers, Sequences, FiniteSets, TLC

VARIABLES
    \* ---- generation entry points
    entry,            \* which entry point runs: "main", "cadquery", "solidpython", "split"
    pc,               \* position in the entry point
    idx,              \* 1-based index of the next part to build (or file to write)
    attempted,        \* names of the parts whose builder was called, in order
    parts_generated,  \* the list parts_generated (the dict parts in solidpython)
    errors,           \* the failures caught and printed: which part, and where it raised
    written,          \* names of the files the exporter wrote
    warnings,         \* the warning/error messages printed by the pre-checks
    reported,         \* the count printed in the final report, -1 before it
    tube_id,          \* parameter table: TUBE_ID of this run
    base_size,        \* parameter table: MANIFOLD_BASE_SIZE (CABINET_WIDTH in the older variants)
    \* ---- area helpers
    variant,          \* which file's helpers are called
    num_tubes,        \* NUM_TUBES_X = NUM_TUBES_Y
    sensor_width,     \* SENSOR_CHAMBER_WIDTH
    pi,               \* math.pi as a rational
    speed,            \* what verify_speed_multiplier did, or NoCall
    \* ---- snap-fit builders
    width, depth, at_height,  \* arguments of add_male_snap_fit / add_female_snap_fit
    male,             \* features stamped by add_male_snap_fit, or NoCall
    female,           \* features stamped by add_female_snap_fit, or NoCall
    quadrant,         \* snap rows stamped by create_transition_section_quadrant, or NoCall
    section,          \* snap rows stamped by create_split_base_section, or NoCall
    \* ---- transition quadrants and the parts they mate with
    four_piece,       \* which four-piece file's quadrant builder is called
    outer_trim,       \* outer_trim (OUTER_TRIM) of the four-piece builder
    pieces,           \* quadrant number -> what the four-piece builder made, or NoCall
    base,             \* snap rows stamped by create_manifold_base, or NoCall
    chamber,          \* snap rows stamped by create_sensor_chamber, or NoCall
    adapter,          \* what create_fan_adapter made, or NoCall
    \* ---- the sections of the split base, the intake tube and its nut
    sections,         \* <<section_x, section_y>> -> what create_split_base_section made
    intake_tube,      \* what create_intake_tube made, or NoCall
    nut               \* what create_tube_mounting_nut made, or NoCall

genVars  == <<entry, pc, idx, attempted, parts_generated, errors, written,
              warnings, reported, tube_id, base_size>>
areaVars == <<variant, num_tubes, sensor_width, pi, speed>>
snapVars == <<width, depth, at_height, male, female, quadrant, section>>
quadVars == <<four_piece, outer_trim, pieces, base, chamber, adapter>>
partVars == <<sections, intake_tube, nut>>
vars     == <<genVars, areaVars, snapVars, quadVars, partVars>>

NoCall == [called |-> FALSE]

(***************************************************************************)
(* Exact rational arithmetic (Python floats are modelled as rationals).    *)
(***************************************************************************)
Abs(x) == IF x < 0 THEN -x ELSE x

RECURSIVE GCD(_, _)
GCD(a, b) == IF b = 0 THEN a ELSE GCD(b, a % b)

\* The fraction n/d in lowest terms with a positive denominator.
Lowest(n, d) ==
    LET g == GCD(Abs(n), Abs(d))
        s == IF d < 0 THEN -1 ELSE 1
    IN  IF g = 0 THEN <<0, 1>> ELSE <<s * (n \div g), s * (d \div g)>>

\* The operations bind their arguments to values once: inside ENABLED, TLC
\* evaluates an operator's argument again at every use of the parameter.
R(i)       == <<i, 1>>
RAdd(x, y) == CHOOSE r \in { Lowest(a[1] * b[2] + b[1] * a[2], a[2] * b[2]) :
                               a \in {x}, b \in {y} } : TRUE
RNeg(x)    == CHOOSE r \in { <<-a[1], a[2]>> : a \in {x} } : TRUE
RSub(x, y) == RAdd(x, RNeg(y))
RMul(x, y) == CHOOSE r \in { Lowest(a[1] * b[1], a[2] * b[2]) :
                               a \in {x}, b \in {y} } : TRUE
RDiv(x, y) == CHOOSE r \in { Lowest(a[1] * b[2], a[2] * b[1]) :
                               a \in {x}, b \in {y} } : TRUE
RAbs(x)    == CHOOSE r \in { <<Abs(a[1]), a[2]>> : a \in {x} } : TRUE
RLt(x, y)  == \E a \in {x}, b \in {y} : a[1] * b[2] < b[1] * a[2]
RLe(x, y)  == \E a \in {x}, b \in {y} : a[1] * b[2] <= b[1] * a[2]
RGt(x, y)  == RLt(y, x)
REq(x, y)  == \E a \in {x}, b \in {y} : a[1] * b[2] = b[1] * a[2]
\* Python's int() on a float: truncation toward zero.
RInt(x)    == CHOOSE r \in { IF a[1] >= 0 THEN a[1] \div a[2] ELSE -((-a[1]) \div a[2]) :
                               a \in {x} } : TRUE
Max(a, b)  == IF a >= b THEN a ELSE b
Half       == <<1, 2>>
HalfOf(x) == RDiv(x, R(2))
RMin(x, y) == IF RLe(x, y) THEN x ELSE y
RMax(x, y) == IF RLe(x, y) THEN y ELSE x

\* An axis-parallel rectangle.
Rect(x0, x1, y0, y1) == [x_min |-> x0, x_max |-> x1, y_min |-> y0, y_max |-> y1]

(***************************************************************************)
(* Parameter table (src/manifold_design.py unless noted).                  *)
(***************************************************************************)
MANIFOLD_BASE_SIZE       == 400
CABINET_WIDTH            == 550
TARGET_SPEED_MULTIPLIER  == 5
TUBE_OD                  == 38
TUBE_ID                  == 35
NUM_TUBES_X              == 3
SENSOR_PCB_SIZE          == <<254, 10>>
SENSOR_CHAMBER_WIDTH     == 42
SENSOR_CHAMBER_HEIGHT    == 80
MANIFOLD_BASE_HEIGHT     == 40
TRANSITION_LENGTH        == 150
WALL_THICKNESS           == 3
MANIFOLD_OUTER_MARGIN    == 20
SNAP_FIT_WIDTH           == 6
SNAP_FIT_HEIGHT          == 8
SNAP_FIT_DEPTH           == 2
SNAP_FIT_TAPER           == <<3, 10>>
SNAP_FIT_CLEARANCE       == <<3, 10>>
MAX_PRINT_X              == 240
MAX_PRINT_Y              == 210
MAX_PRINT_Z              == 210
BASE_SECTIONS_X          == 3

(***************************************************************************)
(* Area helpers and verify_speed_multiplier, one per variant.              *)
(***************************************************************************)
\* f"{x:.1f}" and f"{x:.2f}": x rounded to `digits` decimals, as an integer
\* number of 10^-digits units. Long division, one decimal digit per step, so
\* that no intermediate product leaves the 32-bit integers of TLC.
RECURSIVE FmtStep(_, _, _, _)
FmtStep(acc0, r0, d, k) ==
    CHOOSE f \in { IF k = 0 THEN acc + (IF 2 * r >= d THEN 1 ELSE 0)
                             ELSE FmtStep(acc * 10 + ((r * 10) \div d), (r * 10) % d, d, k - 1) :
                     acc \in {acc0}, r \in {r0} } : TRUE

Fmt(x, digits) ==
    CHOOSE f \in { FmtStep(a[1] \div a[2], a[1] % a[2], a[2], digits) : a \in {x} } : TRUE

calculate_intake_area(nx, ny, id, p) ==
    RMul(RMul(R(nx * ny), p), RMul(RDiv(R(id), R(2)), RDiv(R(id), R(2))))

\* Mutant of calculate_sensor_area_main: the blockage is added instead.
calculate_sensor_area_main_adds(w) == RAdd(R(w * w), RMul(SENSOR_PCB_SIZE, R(1)))

\* src/manifold_design.py: the PCB blockage is subtracted.
calculate_sensor_area_main(w) ==
    LET total_area   == R(w * w)
        pcb_blockage == RMul(SENSOR_PCB_SIZE, R(1))
    IN  RSub(total_area, pcb_blockage)

\* src/cadquery_version and src/solidpython_version: the plain square.
calculate_sensor_area_cadquery(w) == R(w * w)

calculate_sensor_area_solidpython(w) == R(w * w)

\* The lines every variant prints, and the value it returns.
SpeedLines(intake_area, sensor_area) ==
    LET actual_multiplier == RDiv(intake_area, sensor_area)
    IN  [ intake_area |-> intake_area,
          sensor_area |-> sensor_area,
          printed     |-> << Fmt(intake_area, 1), Fmt(sensor_area, 1),
                             Fmt(actual_multiplier, 2) >>,
          raised      |-> FALSE,
          result      |-> actual_multiplier ]

\* if abs(actual_multiplier - TARGET_SPEED_MULTIPLIER) > 0.5: print("WARNING: ...")
DeviationWarning(actual_multiplier) ==
    RGt(RAbs(RSub(actual_multiplier, R(TARGET_SPEED_MULTIPLIER))), <<1, 2>>)

verify_speed_multiplier_main(nx, ny, id, w, p) ==
    LET lines == SpeedLines(calculate_intake_area(nx, ny, id, p),
                            calculate_sensor_area_main(w))
    IN  [ warned |-> DeviationWarning(lines.result) ] @@ lines

verify_speed_multiplier_cadquery(nx, ny, id, w, p) ==
    LET lines == SpeedLines(calculate_intake_area(nx, ny, id, p),
                            calculate_sensor_area_cadquery(w))
    IN  [ warned |-> DeviationWarning(lines.result) ] @@ lines

\* The solidpython variant prints the four lines and returns: it has no
\* deviation test and no warning.
verify_speed_multiplier_solidpython(nx, ny, id, w, p) ==
    LET lines == SpeedLines(calculate_intake_area(nx, ny, id, p),
                            calculate_sensor_area_solidpython(w))
    IN  [ warned |-> FALSE ] @@ lines

verify_speed_multiplier(v, nx, ny, id, w, p) ==
    CASE v = "main"        -> verify_speed_multiplier_main(nx, ny, id, w, p)
      [] v = "cadquery"    -> verify_speed_multiplier_cadquery(nx, ny, id, w, p)
      [] v = "solidpython" -> verify_speed_multiplier_solidpython(nx, ny, id, w, p)

\* math.pi lies strictly between these two rationals:
\* 3883/1236 = 3.1415857... < pi = 3.1415926... < 355/113 = 3.1415929...
PiLower == <<3883, 1236>>
PiUpper == <<355, 113>>

(***************************************************************************)
(* Generation entry points.                                                *)
(***************************************************************************)
MainParts == << "manifold_base", "manifold_transition_quadrant",
                "manifold_sensor_chamber", "manifold_fan_adapter",
                "intake_tube", "tube_mounting_nut" >>

quadrant_names == << "front_left", "front_right", "back_left", "back_right" >>

CadqueryParts == << "manifold_base",
                    "manifold_transition_front_left", "manifold_transition_front_right",
                    "manifold_transition_back_left", "manifold_transition_back_right",
                    "manifold_sensor_chamber", "manifold_fan_adapter", "intake_tube" >>

SolidpythonParts == << "transition_front_left", "transition_front_right",
                       "transition_back_left", "transition_back_right",
                       "intake_tube", "sensor_chamber", "fan_adapter" >>

SplitParts == << "base_section_corner", "base_section_edge", "base_section_center" >>

PartsOf(e) ==
    CASE e = "main"        -> MainParts
      [] e = "cadquery"    -> CadqueryParts
      [] e = "solidpython" -> SolidpythonParts
      [] e = "split"       -> SplitParts

\* Position of the first and of the last quadrant in CadqueryParts: the four
\* quadrants are built by one for loop inside one try block.
FirstQuadrant == 2
LastQuadrant  == 5

\* What one part's build and export can do.
Outcomes == {"ok", "build_raises", "export_raises"}

Range(s) == {s[i] : i \in DOMAIN s}

\* Control continues with part i, or with the final report after the last part.
Goto(parts, i) ==
    IF i > Len(parts) THEN [pc |-> "report", idx |-> i] ELSE [pc |-> "parts", idx |-> i]

\* Mutant of main_except: the exception is not caught and leaves the function.
main_except_propagates(i) == [pc |-> "raised", idx |-> i]

\* Mutant of main_except: the failure ends the part loop and the report follows.
main_except_skips_rest(i) == [pc |-> "report", idx |-> i + 1]

\* The except clause of the try block of part i: the error is printed and
\* control falls through to the next try block.
main_except(i) == Goto(MainParts, i + 1)

split_except(i) == Goto(SplitParts, i + 1)

\* cadquery variant: a part with its own try block.
cadquery_except(i) == Goto(CadqueryParts, i + 1)

\* cadquery variant: the except clause of the try block that holds the whole
\* quadrant loop; control continues after the loop, at the sensor chamber.
cadquery_quadrant_except(i) == Goto(CadqueryParts, LastQuadrant + 1)

\* solidpython variant: no try block at all, the exception leaves
\* generate_all_parts.
solidpython_raise(i) == [pc |-> "raised", idx |-> i]

\* base_width = <base constant> - 2 * MANIFOLD_OUTER_MARGIN
BaseWidth(size) == size - 2 * MANIFOLD_OUTER_MARGIN

\* The print-bed messages of generate_all_parts (cadquery-based variants).
BedWarnings(size) ==
    (IF BaseWidth(size) > MAX_PRINT_X \/ BaseWidth(size) > MAX_PRINT_Y
        THEN {"WARNING: Base exceeds print bed dimensions!"} ELSE {})
    \cup
    (IF TRANSITION_LENGTH > MAX_PRINT_Z
        THEN {"WARNING: Transition section exceeds print bed height!"} ELSE {})

SpeedWarnings(v, id) ==
    IF verify_speed_multiplier(v, NUM_TUBES_X, NUM_TUBES_X, id, SENSOR_CHAMBER_WIDTH, PiUpper).warned
    THEN {"WARNING: Speed multiplier deviation"} ELSE {}

\* generate_split_base: section_width <= MAX_PRINT_X and section_depth <= MAX_PRINT_Y
SectionFits(size) ==
    LET section_width == RDiv(R(BaseWidth(size)), R(BASE_SECTIONS_X))
    IN  RLe(section_width, R(MAX_PRINT_X)) /\ RLe(section_width, R(MAX_PRINT_Y))

\* The values of the parameter table the runs are checked with; the declared
\* ones are among them.
TubeIds == {TUBE_ID, 40}
BaseSizes(e) == IF e \in {"main", "split"} THEN {200, MANIFOLD_BASE_SIZE, 800}
                                           ELSE {200, CABINET_WIDTH}

\* No entry point is running (the helpers are called on their own).
GenIdle ==
    /\ entry = "none" /\ pc = "idle" /\ idx = 0
    /\ attempted = <<>> /\ parts_generated = <<>> /\ errors = <<>> /\ written = <<>>
    /\ warnings = {} /\ reported = -1

GenInit ==
    /\ entry \in {"main", "cadquery", "solidpython", "split"}
    /\ pc = "start" /\ idx = 0
    /\ attempted = <<>> /\ parts_generated = <<>> /\ errors = <<>> /\ written = <<>>
    /\ warnings = {} /\ reported = -1
    /\ tube_id \in TubeIds
    /\ base_size \in BaseSizes(entry)

\* generate_all_parts up to "Generating parts...": the speed check and the
\* print-bed checks only print.
main_precheck ==
    /\ entry = "main" /\ pc = "start"
    /\ warnings' = SpeedWarnings("main", tube_id) \cup BedWarnings(base_size)
    /\ pc' = "parts" /\ idx' = 1
    /\ UNCHANGED <<entry, attempted, parts_generated, errors, written, reported,
                   tube_id, base_size>>
    /\ UNCHANGED <<areaVars, snapVars, quadVars, partVars>>

cadquery_precheck ==
    /\ entry = "cadquery" /\ pc = "start"
    /\ warnings' = SpeedWarnings("cadquery", tube_id) \cup BedWarnings(base_size)
    /\ pc' = "parts" /\ idx' = 1
    /\ UNCHANGED <<entry, attempted, parts_generated, errors, written, reported,
                   tube_id, base_size>>
    /\ UNCHANGED <<areaVars, snapVars, quadVars, partVars>>

\* The solidpython variant has no print-bed check.
solidpython_precheck ==
    /\ entry = "solidpython" /\ pc = "start"
    /\ warnings' = SpeedWarnings("solidpython", tube_id)
    /\ pc' = "parts" /\ idx' = 1
    /\ UNCHANGED <<entry, attempted, parts_generated, errors, written, reported,
                   tube_id, base_size>>
    /\ UNCHANGED <<areaVars, snapVars, quadVars, partVars>>

\* manifold_design_split.py run as a script: verify_speed_multiplier(), then
\* generate_split_base, which returns before any part when a section does
\* not fit the print bed.
split_precheck ==
    /\ entry = "split" /\ pc = "start"
    /\ IF SectionFits(base_size)
          THEN /\ warnings' = SpeedWarnings("main", tube_id)
               /\ pc' = "parts" /\ idx' = 1
          ELSE /\ warnings' = SpeedWarnings("main", tube_id)
                                \cup {"ERROR: Sections still too large for print bed!"}
               /\ pc' = "returned" /\ idx' = 0
    /\ UNCHANGED <<entry, attempted, parts_generated, errors, written, reported,
                   tube_id, base_size>>
    /\ UNCHANGED <<areaVars, snapVars, quadVars, partVars>>

\* Variant of TryBlock: the name is appended before the export is tried.
TryBlock_append_before_export(parts, after_except) ==
    \E o \in Outcomes :
        LET name == parts[idx]
            next == IF o = "ok" THEN Goto(parts, idx + 1) ELSE after_except
        IN  /\ attempted' = Append(attempted, name)
            /\ parts_generated' = IF o # "build_raises" THEN Append(parts_generated, name)
                                                        ELSE parts_generated
            /\ written' = IF o = "ok" THEN Append(written, name) ELSE written
            /\ errors' = IF o = "ok" THEN errors
                                     ELSE Append(errors, [part |-> name, at |-> o])
            /\ pc' = next.pc /\ idx' = next.idx
            /\ UNCHANGED <<entry, warnings, reported, tube_id, base_size>>
            /\ UNCHANGED <<areaVars, snapVars, quadVars, partVars>>

\* One try block: build, export, append; any Exception is caught and printed.
\* after_except is where control goes once the except clause has run.
TryBlock(parts, after_except) ==
    \E o \in Outcomes :
        LET name == parts[idx]
            next == IF o = "ok" THEN Goto(parts, idx + 1) ELSE after_except
        IN  /\ attempted' = Append(attempted, name)
            /\ parts_generated' = IF o = "ok" THEN Append(parts_generated, name)
                                              ELSE parts_generated
            /\ written' = IF o = "ok" THEN Append(written, name) ELSE written
            /\ errors' = IF o = "ok" THEN errors
                                     ELSE Append(errors, [part |-> name, at |-> o])
            /\ pc' = next.pc /\ idx' = next.idx
            /\ UNCHANGED <<entry, warnings, reported, tube_id, base_size>>
            /\ UNCHANGED <<areaVars, snapVars, quadVars, partVars>>

main_try_part ==
    /\ entry = "main" /\ pc = "parts"
    /\ TryBlock(MainParts, main_except(idx))

split_try_part ==
    /\ entry = "split" /\ pc = "parts"
    /\ TryBlock(SplitParts, split_except(idx))

cadquery_try_part ==
    /\ entry = "cadquery" /\ pc = "parts"
    /\ idx \notin FirstQuadrant..LastQuadrant
    /\ TryBlock(CadqueryParts, cadquery_except(idx))

\* One iteration of "for i in range(1, 5)" inside the single try block.
cadquery_quadrant_iteration ==
    /\ entry = "cadquery" /\ pc = "parts"
    /\ idx \in FirstQuadrant..LastQuadrant
    /\ TryBlock(CadqueryParts, cadquery_quadrant_except(idx))

\* parts[name] = create_...(): nothing catches an exception.
solidpython_build_part ==
    /\ entry = "solidpython" /\ pc = "parts"
    /\ \E o \in {"ok", "build_raises"} :
        LET name == SolidpythonParts[idx]
            next == IF o # "ok" THEN solidpython_raise(idx)
                    ELSE IF idx = Len(SolidpythonParts) THEN [pc |-> "write", idx |-> 1]
                    ELSE [pc |-> "parts", idx |-> idx + 1]
        IN  /\ attempted' = Append(attempted, name)
            /\ parts_generated' = IF o = "ok" THEN Append(parts_generated, name)
                                              ELSE parts_generated
            /\ pc' = next.pc /\ idx' = next.idx
            /\ UNCHANGED <<entry, errors, written, warnings, reported, tube_id, base_size>>
    /\ UNCHANGED <<areaVars, snapVars, quadVars, partVars>>

\* One iteration of "for name, part in parts.items(): scad_render_to_file(...)".
solidpython_write_scad ==
    /\ entry = "solidpython" /\ pc = "write"
    /\ \E o \in {"ok", "export_raises"} :
        LET next == IF o # "ok" THEN solidpython_raise(idx)
                    ELSE IF idx = Len(parts_generated) THEN [pc |-> "report", idx |-> idx + 1]
                    ELSE [pc |-> "write", idx |-> idx + 1]
        IN  /\ written' = IF o = "ok" THEN Append(written, parts_generated[idx]) ELSE written
            /\ pc' = next.pc /\ idx' = next.idx
            /\ UNCHANGED <<entry, attempted, parts_generated, errors, warnings, reported,
                           tube_id, base_size>>
    /\ UNCHANGED <<areaVars, snapVars, quadVars, partVars>>

\* "GENERATION COMPLETE" and the count of parts.
report ==
    /\ pc = "report"
    /\ pc' = "done"
    /\ reported' = Len(parts_generated)
    /\ UNCHANGED <<entry, idx, attempted, parts_generated, errors, written, warnings,
                   tube_id, base_size>>
    /\ UNCHANGED <<areaVars, snapVars, quadVars, partVars>>

GenNext ==
    \/ main_precheck \/ cadquery_precheck \/ solidpython_precheck \/ split_precheck
    \/ main_try_part \/ split_try_part \/ cadquery_try_part \/ cadquery_quadrant_iteration
    \/ solidpython_build_part \/ solidpython_write_scad
    \/ report

(***************************************************************************)
(* Snap-fit builders (src/manifold_design.py, src/manifold_design_split.py).*)
(* A builder's result is the rows of features it stamps: for each row the  *)
(* sequence, in loop order, of the solids with their rotation about Z and  *)
(* their translation in the XY plane.                                      *)
(***************************************************************************)
\* The local tab_spacing of each builder.
male_tab_spacing     == 60
female_tab_spacing   == 60
quadrant_tab_spacing == 60
split_tab_spacing    == 60
joint_width          == 4

\* Mutant of num_tabs_top: no lower limit on the count.
num_tabs_top_unclamped(length, spacing) == RInt(RDiv(length, R(spacing)))

\* max(2, int(length / tab_spacing)) and max(1, int(length / tab_spacing))
num_tabs(length, spacing)     == Max(2, RInt(RDiv(length, R(spacing))))
num_tabs_top(length, spacing) == Max(1, RInt(RDiv(length, R(spacing))))

\* Variant of row_pos: the first feature sits on the start of the edge.
row_pos_from_edge(lo, length, n, i) == RAdd(lo, RMul(R(i), RDiv(length, R(n))))

\* lo + (i + 0.5) * (length / n), i counted from 0 as range() does.
row_pos(lo, length, n, i) == RAdd(lo, RMul(RAdd(R(i), Half), RDiv(length, R(n))))

\* The XZ cross-section (inner bottom, inner top, outer top, outer bottom)
\* and the extrusion to both sides of the workplane.
create_snap_tab(base_height) ==
    [ polygon |-> << <<R(0), R(base_height)>>,
                     <<R(0), R(base_height + SNAP_FIT_HEIGHT)>>,
                     <<R(SNAP_FIT_DEPTH), RSub(R(base_height + SNAP_FIT_HEIGHT), SNAP_FIT_TAPER)>>,
                     <<R(SNAP_FIT_DEPTH), R(base_height)>> >>,
      extrude |-> R(SNAP_FIT_WIDTH) ]

create_snap_slot(base_height) ==
    [ polygon |-> << <<RNeg(SNAP_FIT_CLEARANCE), R(base_height)>>,
                     <<RNeg(SNAP_FIT_CLEARANCE), R(base_height + SNAP_FIT_HEIGHT)>>,
                     <<RAdd(R(SNAP_FIT_DEPTH), SNAP_FIT_CLEARANCE),
                       RAdd(RSub(R(base_height + SNAP_FIT_HEIGHT), SNAP_FIT_TAPER),
                            SNAP_FIT_CLEARANCE)>>,
                     <<RAdd(R(SNAP_FIT_DEPTH), SNAP_FIT_CLEARANCE), R(base_height)>> >>,
      extrude |-> RAdd(R(SNAP_FIT_WIDTH), RMul(R(2), SNAP_FIT_CLEARANCE)) ]

\* solid.rotate((0,0,0), (0,0,1), angle).translate((x, y, 0))
Stamp(solid, angle, x, y) == [solid |-> solid, angle |-> angle, at |-> <<x, y>>]

add_male_snap_fit(w, d, h) ==
    LET num_tabs_x == num_tabs(R(w), male_tab_spacing)
        num_tabs_y == num_tabs(R(d), male_tab_spacing)
        x_pos(i)   == row_pos(RDiv(RNeg(R(w)), R(2)), R(w), num_tabs_x, i)
        y_pos(i)   == row_pos(RDiv(RNeg(R(d)), R(2)), R(d), num_tabs_y, i)
    IN  [ called |-> TRUE,
          rows |->
            ("+Y" :> [i \in 1..num_tabs_x |->
                        Stamp(create_snap_tab(h), 0, x_pos(i - 1), RDiv(R(d), R(2)))]) @@
            ("-Y" :> [i \in 1..num_tabs_x |->
                        Stamp(create_snap_tab(h), 180, x_pos(i - 1), RDiv(RNeg(R(d)), R(2)))]) @@
            ("+X" :> [i \in 1..num_tabs_y |->
                        Stamp(create_snap_tab(h), 90, RDiv(R(w), R(2)), y_pos(i - 1))]) @@
            ("-X" :> [i \in 1..num_tabs_y |->
                        Stamp(create_snap_tab(h), -90, RDiv(RNeg(R(w)), R(2)), y_pos(i - 1))]) ]

\* Mutant of add_female_snap_fit: reads the depth for the width.
add_female_snap_fit_transposed(w, d, h) == add_male_snap_fit(d, w, h)

add_female_snap_fit(w, d, h) ==
    LET num_tabs_x == num_tabs(R(w), female_tab_spacing)
        num_tabs_y == num_tabs(R(d), female_tab_spacing)
        x_pos(i)   == row_pos(RDiv(RNeg(R(w)), R(2)), R(w), num_tabs_x, i)
        y_pos(i)   == row_pos(RDiv(RNeg(R(d)), R(2)), R(d), num_tabs_y, i)
    IN  [ called |-> TRUE,
          rows |->
            ("+Y" :> [i \in 1..num_tabs_x |->
                        Stamp(create_snap_slot(h), 0, x_pos(i - 1), RDiv(R(d), R(2)))]) @@
            ("-Y" :> [i \in 1..num_tabs_x |->
                        Stamp(create_snap_slot(h), 180, x_pos(i - 1), RDiv(RNeg(R(d)), R(2)))]) @@
            ("+X" :> [i \in 1..num_tabs_y |->
                        Stamp(create_snap_slot(h), 90, RDiv(R(w), R(2)), y_pos(i - 1))]) @@
            ("-X" :> [i \in 1..num_tabs_y |->
                        Stamp(create_snap_slot(h), -90, RDiv(RNeg(R(w)), R(2)), y_pos(i - 1))]) ]

\* A hole drilled through a workplane: cq.Workplane(plane).workplane(offset)
\* .center(u, v).circle(2.5).extrude(20, both=True). The YZ workplane lies
\* at x = offset with (u, v) = (y, z); the XZ workplane has its normal along
\* -Y, so it lies at y = -offset with (u, v) = (x, z).
\* Mutant of BoltHole: every workplane is read as a YZ workplane.
BoltHole_always_YZ(plane, offset, u, v) ==
    [ plane |-> plane, at |-> <<R(offset), u, v>> ]

BoltHole(plane, offset, u, v) ==
    [ plane |-> plane,
      at    |-> IF plane = "YZ" THEN <<R(offset), u, v>> ELSE <<u, R(-offset), v>> ]

symmetric_num_bolts == 2
symmetric_hole_radius == <<5, 2>>

\* Variant of interior_cutouts: the rectangle removes the outer half of the
\* lower wall instead of the inner half.
interior_cutouts_outer_half ==
    LET cu == RSub(RDiv(R(3 * TRANSITION_LENGTH), R(4)), HalfOf(R(WALL_THICKNESS)))
        cv == RDiv(R(TRANSITION_LENGTH), R(4))
        w  == RAdd(HalfOf(R(TRANSITION_LENGTH)), R(WALL_THICKNESS))
        h  == HalfOf(R(TRANSITION_LENGTH))
    IN  [ rect |-> Rect(RSub(cu, HalfOf(w)), RAdd(cu, HalfOf(w)),
                        RSub(cv, HalfOf(h)), RAdd(cv, HalfOf(h))),
          tri  |-> << <<R(-WALL_THICKNESS), HalfOf(R(TRANSITION_LENGTH))>>,
                      <<R(-WALL_THICKNESS), R(TRANSITION_LENGTH + 23)>>,
                      <<RSub(RDiv(R(2 * TRANSITION_LENGTH), R(3)), R(2)),
                        HalfOf(R(TRANSITION_LENGTH))>> >> ]

\* The two cutouts made in each interior wall, in the wall's own (u, v)
\* coordinates (u along the edge, v = z): the rectangle centred at
\* (L/4 - t/2, L/4) of size (L/2 + t) x L/2, and the triangle
\* (-t, L/2), (-t, L + 23), (2L/3 - 2, L/2), with L = TRANSITION_LENGTH and
\* t = WALL_THICKNESS.
interior_cutouts ==
    LET cu == RSub(RDiv(R(TRANSITION_LENGTH), R(4)), HalfOf(R(WALL_THICKNESS)))
        cv == RDiv(R(TRANSITION_LENGTH), R(4))
        w  == RAdd(HalfOf(R(TRANSITION_LENGTH)), R(WALL_THICKNESS))
        h  == HalfOf(R(TRANSITION_LENGTH))
    IN  [ rect |-> Rect(RSub(cu, HalfOf(w)), RAdd(cu, HalfOf(w)),
                        RSub(cv, HalfOf(h)), RAdd(cv, HalfOf(h))),
          tri  |-> << <<R(-WALL_THICKNESS), HalfOf(R(TRANSITION_LENGTH))>>,
                      <<R(-WALL_THICKNESS), R(TRANSITION_LENGTH + 23)>>,
                      <<RSub(RDiv(R(2 * TRANSITION_LENGTH), R(3)), R(2)),
                        HalfOf(R(TRANSITION_LENGTH))>> >> ]

\* The symmetric single-piece quadrant of src/manifold_design.py: the two
\* loft end faces, the bolt holes in loop order, and the snap rows: slots on
\* the two outer bottom edges, tabs on the two outer top edges.
create_transition_section_quadrant(size, chamber_width) ==
    LET base_width == R(BaseWidth(size))
        base_depth == R(BaseWidth(size))
        sensor_w   == R(chamber_width + 2 * WALL_THICKNESS)
        x_min == R(0)
        x_max == RDiv(base_width, R(2))
        y_min == R(0)
        y_max == RDiv(base_depth, R(2))
        quadrant_width == RSub(x_max, x_min)
        quadrant_depth == RSub(y_max, y_min)
        top_x_min == RDiv(R(-joint_width), R(2))
        top_x_max == RDiv(sensor_w, R(2))
        top_y_min == RDiv(R(-joint_width), R(2))
        top_y_max == RDiv(sensor_w, R(2))
        top_quadrant_width == RSub(top_x_max, top_x_min)
        top_quadrant_depth == RSub(top_y_max, top_y_min)
        n   == num_tabs(quadrant_width, quadrant_tab_spacing)
        top == num_tabs_top(top_quadrant_width, quadrant_tab_spacing)
        y_center     == RDiv(RAdd(y_min, y_max), R(2))
        total_height == RDiv(R(TRANSITION_LENGTH), R(2))
        z_pos(i)     == RDiv(RMul(R(i + 1), total_height), R(symmetric_num_bolts + 1))
        hole_x       == 0
    IN  [ called |-> TRUE,
          bottom |-> [x_min |-> x_min, x_max |-> x_max, y_min |-> y_min, y_max |-> y_max],
          top    |-> [x_min |-> top_x_min, x_max |-> top_x_max,
                      y_min |-> top_y_min, y_max |-> top_y_max],
          height |-> TRANSITION_LENGTH,
          cutouts |-> interior_cutouts,
          hole_radius |-> symmetric_hole_radius,
          bolts  |-> [k \in 1..(2 * symmetric_num_bolts) |->
                        IF k % 2 = 1
                        THEN BoltHole("YZ", hole_x, y_center, z_pos((k - 1) \div 2))
                        ELSE BoltHole("XZ", hole_x, y_center, z_pos((k - 1) \div 2))],
          rows |->
            ("bottom+X" :> [i \in 1..n |->
                Stamp(create_snap_slot(0), 90, x_max, row_pos(y_min, quadrant_depth, n, i - 1))]) @@
            ("bottom+Y" :> [i \in 1..n |->
                Stamp(create_snap_slot(0), 180, row_pos(x_min, quadrant_width, n, i - 1), y_max)]) @@
            ("top+X" :> [i \in 1..top |->
                Stamp(create_snap_tab(TRANSITION_LENGTH), 90, top_x_max,
                      row_pos(top_y_min, top_quadrant_depth, top, i - 1))]) @@
            ("top+Y" :> [i \in 1..top |->
                Stamp(create_snap_tab(TRANSITION_LENGTH), 180,
                      row_pos(top_x_min, top_quadrant_width, top, i - 1), top_y_max)]) ]

BOLT_HOLE_DIA        == 5
ALIGNMENT_PIN_DIA    == 6
ALIGNMENT_PIN_HEIGHT == 10
SplitEdgeHoles       == 3

\* The tube centres of the whole base that pass the inclusive bounds test
\* of a section, in loop order, in the section's local coordinates.
tube_positions_local(section_x, section_y, size) ==
    LET base_width    == R(BaseWidth(size))
        base_depth    == R(BaseWidth(size))
        section_width == RDiv(base_width, R(BASE_SECTIONS_X))
        section_depth == RDiv(base_depth, R(BASE_SECTIONS_X))
        section_offset_x == RAdd(RAdd(RNeg(HalfOf(base_width)), RMul(R(section_x), section_width)),
                                 HalfOf(section_width))
        section_offset_y == RAdd(RAdd(RNeg(HalfOf(base_depth)), RMul(R(section_y), section_depth)),
                                 HalfOf(section_depth))
        tube_separation  == RDiv(R(BaseWidth(size) - 2 * WALL_THICKNESS - 2 * TUBE_OD),
                                 R(NUM_TUBES_X - 1))
        first_tube_offet == R(WALL_THICKNESS + TUBE_OD)
        tube(i)       == RAdd(RAdd(RNeg(HalfOf(base_depth)), first_tube_offet),
                              RMul(R(i), tube_separation))
        section_min_x == RAdd(RNeg(HalfOf(base_width)), RMul(R(section_x), section_width))
        section_max_x == RAdd(section_min_x, section_width)
        section_min_y == RAdd(RNeg(HalfOf(base_depth)), RMul(R(section_y), section_depth))
        section_max_y == RAdd(section_min_y, section_depth)
        loop          == [k \in 1..(NUM_TUBES_X * NUM_TUBES_X) |->
                            <<tube((k - 1) \div NUM_TUBES_X), tube((k - 1) % NUM_TUBES_X)>>]
        Belongs(t)    == /\ RLe(section_min_x, t[1]) /\ RLe(t[1], section_max_x)
                         /\ RLe(section_min_y, t[2]) /\ RLe(t[2], section_max_y)
        kept          == SelectSeq(loop, Belongs)
    IN  [k \in 1..Len(kept) |->
            <<RSub(kept[k][1], section_offset_x), RSub(kept[k][2], section_offset_y)>>]

\* Variant of split_tube_positions: the override that is commented out in
\* the source, (section_width / 4, section_depth / 4) for the corner piece
\* and (0, section_depth / 4) for the edge piece.
split_tube_positions_quarter(section_x, section_y, size) ==
    LET found   == tube_positions_local(section_x, section_y, size)
        quarter == RDiv(RDiv(R(BaseWidth(size)), R(BASE_SECTIONS_X)), R(4))
    IN  IF section_x = 0 /\ section_y = 0 /\ Len(found) > 0 THEN << <<quarter, quarter>> >>
        ELSE IF section_x = 1 /\ section_y = 0 /\ Len(found) > 0 THEN << <<R(0), quarter>> >>
        ELSE found

\* The tubes create_split_base_section gives a section: those found by the
\* bounds test, replaced for the corner piece and for the edge piece by one
\* tube at first_tube_offet - section_width / 2.
split_tube_positions(section_x, section_y, size) ==
    LET found     == tube_positions_local(section_x, section_y, size)
        moved     == RSub(R(WALL_THICKNESS + TUBE_OD),
                          HalfOf(RDiv(R(BaseWidth(size)), R(BASE_SECTIONS_X))))
        is_corner == section_x = 0 /\ section_y = 0
        is_edge   == section_x = 1 /\ section_y = 0
    IN  IF is_corner /\ Len(found) > 0 THEN << <<moved, moved>> >>
        ELSE IF is_edge /\ Len(found) > 0 THEN << <<R(0), moved>> >>
        ELSE found

\* The edges create_split_base_section drills bolt holes in (3 per edge) and
\* the alignment feature it puts on each: a male pin extruded outward, or a
\* female hole cut into the wall. Only the center, the corner (0,0) and the
\* edge piece (1,0) get any.
split_edge_features(section_x, section_y) ==
    LET all == {"+X", "-X", "+Y", "-Y"}
    IN  IF section_x = 1 /\ section_y = 1
        THEN [holes |-> all, pins |-> [e \in all |-> "male"]]
        ELSE IF section_x = 0 /\ section_y = 0
        THEN [holes |-> {"+X", "-Y"}, pins |-> [e \in {"+X", "-Y"} |-> "male"]]
        ELSE IF section_x = 1 /\ section_y = 0
        THEN [holes |-> {"+X", "-X", "-Y"},
              pins  |-> [e \in {"+X", "-X", "-Y"} |-> "female"]]
        ELSE [holes |-> {}, pins |-> [e \in {} |-> "none"]]

\* The snap rows of one section of the split base: the corner piece has tabs
\* on -X and -Y, the edge piece on -Y, any other piece none.
create_split_base_section(section_x, section_y, size) ==
    LET section_width == RDiv(R(BaseWidth(size)), R(BASE_SECTIONS_X))
        section_depth == RDiv(R(BaseWidth(size)), R(BASE_SECTIONS_X))
        is_corner   == section_x = 0 /\ section_y = 0
        is_edge     == section_x = 1 /\ section_y = 0
        snap_height == MANIFOLD_BASE_HEIGHT + WALL_THICKNESS
        n           == num_tabs(section_width, split_tab_spacing)
        left   == [i \in 1..n |->
                     Stamp(create_snap_tab(snap_height), -90, RDiv(RNeg(section_width), R(2)),
                           row_pos(RDiv(RNeg(section_depth), R(2)), section_depth, n, i - 1))]
        bottom == [i \in 1..n |->
                     Stamp(create_snap_tab(snap_height), 180,
                           row_pos(RDiv(RNeg(section_width), R(2)), section_width, n, i - 1),
                           RDiv(RNeg(section_depth), R(2)))]
    IN  [ called |-> TRUE,
          piece  |-> <<section_x, section_y>>,
          width  |-> section_width,
          tubes  |-> split_tube_positions(section_x, section_y, size),
          holes  |-> [e \in split_edge_features(section_x, section_y).holes |->
                        [i \in 1..SplitEdgeHoles |->
                           RAdd(RDiv(RNeg(section_width), R(2)),
                                RMul(R(i), RDiv(section_width, R(SplitEdgeHoles + 1))))]],
          pins   |-> split_edge_features(section_x, section_y).pins,
          rows   |-> IF is_corner THEN ("-X" :> left) @@ ("-Y" :> bottom)
                     ELSE IF is_edge THEN ("-Y" :> bottom)
                     ELSE [r \in {} |-> <<>>] ]

(***************************************************************************)
(* The four-piece quadrant builders (src/cadquery_version and              *)
(* src/solidpython_version), with outer_trim as a parameter.               *)
(***************************************************************************)
\* Locals of create_transition_section_quadrant in src/cadquery_version.
bottom_margin          == 15
cadquery_joint_width   == 4
cadquery_outer_trim    == 38
bolt_spacing           == 40
\* Module constants of src/solidpython_version.
BOTTOM_PLATE_MARGIN    == 15
JOINT_OVERLAP          == 4
OUTER_TRIM             == 38
BOLT_SPACING           == 40
MAX_PRINT_X_solidpython == 220
MAX_PRINT_Y_solidpython == 220

\* Mutant of cadquery_bottom_extents: the outer edges are not trimmed.
cadquery_bottom_extents_untrimmed(is_right, is_back, trim) ==
    LET h == RDiv(R(CABINET_WIDTH - 2 * MANIFOLD_OUTER_MARGIN), R(2))
        j == RDiv(R(cadquery_joint_width), R(2))
    IN  Rect(IF is_right THEN RNeg(j) ELSE RNeg(h), IF is_right THEN h ELSE j,
             IF is_back THEN RNeg(j) ELSE RNeg(h), IF is_back THEN h ELSE j)

\* x_min .. y_max of the bottom plate: half the base, the outer edge moved in
\* by the trim, the interior edge moved out by half the joint width.
cadquery_bottom_extents(is_right, is_back, trim) ==
    LET plate_half_width == RDiv(R(CABINET_WIDTH - 2 * MANIFOLD_OUTER_MARGIN), R(2))
        plate_half_depth == RDiv(R(CABINET_WIDTH - 2 * MANIFOLD_OUTER_MARGIN), R(2))
        x_min0 == IF is_right THEN R(0) ELSE RNeg(plate_half_width)
        x_max0 == IF is_right THEN plate_half_width ELSE R(0)
        y_min0 == IF is_back THEN R(0) ELSE RNeg(plate_half_depth)
        y_max0 == IF is_back THEN plate_half_depth ELSE R(0)
        x_min1 == IF ~is_right THEN RAdd(x_min0, R(trim)) ELSE x_min0
        x_max1 == IF ~is_right THEN x_max0 ELSE RSub(x_max0, R(trim))
        y_min1 == IF ~is_back THEN RAdd(y_min0, R(trim)) ELSE y_min0
        y_max1 == IF ~is_back THEN y_max0 ELSE RSub(y_max0, R(trim))
        half_joint == RDiv(R(cadquery_joint_width), R(2))
    IN  Rect(IF is_right THEN RSub(x_min1, half_joint) ELSE x_min1,
             IF is_right THEN x_max1 ELSE RAdd(x_max1, half_joint),
             IF is_back THEN RSub(y_min1, half_joint) ELSE y_min1,
             IF is_back THEN y_max1 ELSE RAdd(y_max1, half_joint))

\* Mutant of solidpython_bottom_extents: the interior edges are pulled back
\* by half the overlap instead of pushed out.
solidpython_bottom_extents_gap(is_right, is_back, trim) ==
    LET h == RDiv(R(CABINET_WIDTH - 2 * MANIFOLD_OUTER_MARGIN), R(2))
        j == RDiv(R(JOINT_OVERLAP), R(2))
    IN  Rect(IF is_right THEN j ELSE RAdd(RNeg(h), R(trim)),
             IF is_right THEN RSub(h, R(trim)) ELSE RNeg(j),
             IF is_back THEN j ELSE RAdd(RNeg(h), R(trim)),
             IF is_back THEN RSub(h, R(trim)) ELSE RNeg(j))

solidpython_bottom_extents(is_right, is_back, trim) ==
    LET plate_half_width == RDiv(R(CABINET_WIDTH - 2 * MANIFOLD_OUTER_MARGIN), R(2))
        plate_half_depth == RDiv(R(CABINET_WIDTH - 2 * MANIFOLD_OUTER_MARGIN), R(2))
        x_min0 == IF is_right THEN R(0) ELSE RNeg(plate_half_width)
        x_max0 == IF is_right THEN plate_half_width ELSE R(0)
        y_min0 == IF is_back THEN R(0) ELSE RNeg(plate_half_depth)
        y_max0 == IF is_back THEN plate_half_depth ELSE R(0)
        x_min1 == IF ~is_right THEN RAdd(x_min0, R(trim)) ELSE x_min0
        x_max1 == IF ~is_right THEN x_max0 ELSE RSub(x_max0, R(trim))
        y_min1 == IF ~is_back THEN RAdd(y_min0, R(trim)) ELSE y_min0
        y_max1 == IF ~is_back THEN y_max0 ELSE RSub(y_max0, R(trim))
        half_joint == RDiv(R(JOINT_OVERLAP), R(2))
    IN  Rect(IF is_right THEN RSub(x_min1, half_joint) ELSE x_min1,
             IF is_right THEN x_max1 ELSE RAdd(x_max1, half_joint),
             IF is_back THEN RSub(y_min1, half_joint) ELSE y_min1,
             IF is_back THEN y_max1 ELSE RAdd(y_max1, half_joint))

\* Variant of BottomCutout: the cutout is the plate itself inset by the
\* sealing margin on every side.
BottomCutout_inset_from_plate(b, margin) ==
    LET inner_x_min == RAdd(b.x_min, R(margin))
        inner_x_max == RSub(b.x_max, R(margin))
        inner_y_min == RAdd(b.y_min, R(margin))
        inner_y_max == RSub(b.y_max, R(margin))
    IN  [ inner |-> Rect(inner_x_min, inner_x_max, inner_y_min, inner_y_max),
          cut   |-> RGt(inner_x_max, inner_x_min) /\ RGt(inner_y_max, inner_y_min) ]

\* Variant of BottomCutout: a cutout of zero width or depth is cut as well.
BottomCutout_cuts_on_zero(b, margin) ==
    LET half == RDiv(R(CABINET_WIDTH - 2 * MANIFOLD_OUTER_MARGIN), R(2))
        inner_x_min == RMax(b.x_min, RAdd(RNeg(half), R(margin)))
        inner_x_max == RMin(b.x_max, RSub(half, R(margin)))
        inner_y_min == RMax(b.y_min, RAdd(RNeg(half), R(margin)))
        inner_y_max == RMin(b.y_max, RSub(half, R(margin)))
    IN  [ inner |-> Rect(inner_x_min, inner_x_max, inner_y_min, inner_y_max),
          cut   |-> RLe(inner_x_min, inner_x_max) /\ RLe(inner_y_min, inner_y_max) ]

\* The bottom-plate cutout: the plate clipped to the base less the sealing
\* margin, cut only if it has positive width and depth.
BottomCutout(b, margin) ==
    LET half == RDiv(R(CABINET_WIDTH - 2 * MANIFOLD_OUTER_MARGIN), R(2))
        inner_x_min == RMax(b.x_min, RAdd(RNeg(half), R(margin)))
        inner_x_max == RMin(b.x_max, RSub(half, R(margin)))
        inner_y_min == RMax(b.y_min, RAdd(RNeg(half), R(margin)))
        inner_y_max == RMin(b.y_max, RSub(half, R(margin)))
    IN  [ inner |-> Rect(inner_x_min, inner_x_max, inner_y_min, inner_y_max),
          cut   |-> RGt(inner_x_max, inner_x_min) /\ RGt(inner_y_max, inner_y_min) ]

\* top_x_min .. top_y_max: a quarter of the chamber footprint, the interior
\* edge moved out by half the joint width.
TopExtents(is_right, is_back, joint) ==
    LET top_half   == RDiv(R(SENSOR_CHAMBER_WIDTH + 2 * WALL_THICKNESS), R(2))
        half_joint == RDiv(R(joint), R(2))
    IN  Rect(IF ~is_right THEN RNeg(top_half) ELSE RNeg(half_joint),
             IF is_right THEN top_half ELSE half_joint,
             IF ~is_back THEN RNeg(top_half) ELSE RNeg(half_joint),
             IF is_back THEN top_half ELSE half_joint)

\* z_pos of bolt i (from 0) of num_bolts along the wall above the plate.
bolt_z_pos(i, num_bolts) ==
    LET total_height == TRANSITION_LENGTH + WALL_THICKNESS
    IN  RAdd(R(WALL_THICKNESS),
             RDiv(RMul(R(i + 1), R(total_height - WALL_THICKNESS)), R(num_bolts + 1)))

\* The holes on the x = 0 plane: every quadrant except quadrant 2.
cadquery_x_edge_bolts(is_right, is_back, b) ==
    LET total_height == TRANSITION_LENGTH + WALL_THICKNESS
        num_bolts == Max(2, RInt(RDiv(R(total_height), R(bolt_spacing))))
        y_center  == RDiv(RAdd(b.y_min, b.y_max), R(2))
        hole_x    == 0
    IN  IF ~(is_right /\ ~is_back)
        THEN [i \in 1..num_bolts |-> BoltHole("YZ", hole_x, y_center, bolt_z_pos(i - 1, num_bolts))]
        ELSE <<>>

\* The holes on the y = 0 plane: every quadrant except quadrant 3.
cadquery_y_edge_bolts(is_right, is_back, b) ==
    LET total_height == TRANSITION_LENGTH + WALL_THICKNESS
        num_bolts == Max(2, RInt(RDiv(R(total_height), R(bolt_spacing))))
        x_center  == RDiv(RAdd(b.x_min, b.x_max), R(2))
        hole_y    == 0
    IN  IF ~(is_back /\ ~is_right)
        THEN [i \in 1..num_bolts |-> BoltHole("XZ", hole_y, x_center, bolt_z_pos(i - 1, num_bolts))]
        ELSE <<>>

create_transition_section_quadrant_cadquery(q, trim) ==
    LET is_right == q \in {2, 4}
        is_back  == q \in {3, 4}
        b        == cadquery_bottom_extents(is_right, is_back, trim)
    IN  [ called |-> TRUE, raised |-> FALSE,
          quadrant |-> q,
          bottom |-> b,
          cutout |-> BottomCutout(b, bottom_margin),
          top    |-> TopExtents(is_right, is_back, cadquery_joint_width),
          height |-> TRANSITION_LENGTH + WALL_THICKNESS,
          bolts  |-> cadquery_x_edge_bolts(is_right, is_back, b)
                       \o cadquery_y_edge_bolts(is_right, is_back, b) ]

\* translate([x, y, z])(rotate(...)(cylinder(...))): the hole's axis point.
SolidHole(plane, x, y, z) == [plane |-> plane, at |-> <<x, y, z>>]

\* solidpython: one loop over the bolts, each adding the x-edge hole (not on
\* quadrant 2) and then the y-edge hole (not on quadrant 3).
solidpython_bolt_holes(is_right, is_back, b) ==
    LET total_height == TRANSITION_LENGTH + WALL_THICKNESS
        num_bolts == Max(2, RInt(RDiv(R(total_height), R(BOLT_SPACING))))
        x_center  == RDiv(RAdd(b.x_min, b.x_max), R(2))
        y_center  == RDiv(RAdd(b.y_min, b.y_max), R(2))
        xs == IF ~(is_right /\ ~is_back)
              THEN [i \in 1..num_bolts |-> SolidHole("YZ", R(0), y_center, bolt_z_pos(i - 1, num_bolts))]
              ELSE <<>>
        ys == IF ~(is_back /\ ~is_right)
              THEN [i \in 1..num_bolts |-> SolidHole("XZ", x_center, R(0), bolt_z_pos(i - 1, num_bolts))]
              ELSE <<>>
    IN  xs \o ys

create_transition_quadrant(q, trim) ==
    LET is_right == q \in {2, 4}
        is_back  == q \in {3, 4}
        b        == solidpython_bottom_extents(is_right, is_back, trim)
    IN  [ called |-> TRUE, raised |-> FALSE,
          quadrant |-> q,
          bottom |-> b,
          cutout |-> BottomCutout(b, BOTTOM_PLATE_MARGIN),
          top    |-> TopExtents(is_right, is_back, JOINT_OVERLAP),
          height |-> TRANSITION_LENGTH + WALL_THICKNESS,
          bolts  |-> solidpython_bolt_holes(is_right, is_back, b) ]

\* create_manifold_base and create_sensor_chamber: the snap rows they stamp.
\* Mutant of create_manifold_base: the tabs go round the full base size,
\* the outer margin not taken off.
create_manifold_base_no_margin(size) ==
    [ called |-> TRUE,
      base_width |-> size,
      base_depth |-> size,
      rows |-> add_male_snap_fit(size, size, MANIFOLD_BASE_HEIGHT + WALL_THICKNESS).rows ]

create_manifold_base(size) ==
    [ called |-> TRUE,
      base_width |-> BaseWidth(size),
      base_depth |-> BaseWidth(size),
      rows |-> add_male_snap_fit(BaseWidth(size), BaseWidth(size),
                                 MANIFOLD_BASE_HEIGHT + WALL_THICKNESS).rows ]

create_sensor_chamber(chamber_width) ==
    LET chamber_size == chamber_width + 2 * WALL_THICKNESS
    IN  [ called |-> TRUE,
          chamber_size |-> chamber_size,
          bottom |-> add_female_snap_fit(chamber_size, chamber_size, 0),
          top    |-> add_male_snap_fit(chamber_size, chamber_size, SENSOR_CHAMBER_HEIGHT) ]

FAN_SIZE            == 120
adapter_height      == 40
fan_mount_thickness == 4

\* Variant of create_fan_adapter: the outer shell starts from the inner
\* opening of the chamber, the walls not added.
create_fan_adapter_inner_size(chamber_width) ==
    [ called |-> TRUE,
      bottom_size |-> chamber_width,
      top_size    |-> FAN_SIZE + 10,
      height      |-> adapter_height + fan_mount_thickness ]

\* create_fan_adapter: the outer shell lofted from the chamber_size square
\* at the bottom to the fan frame at the top.
create_fan_adapter(chamber_width) ==
    [ called |-> TRUE,
      bottom_size |-> chamber_width + 2 * WALL_THICKNESS,
      top_size    |-> FAN_SIZE + 10,
      height      |-> adapter_height + fan_mount_thickness ]

\* The helpers are not called on their own.
AreaIdle ==
    /\ variant = "none" /\ num_tubes = NUM_TUBES_X /\ sensor_width = SENSOR_CHAMBER_WIDTH
    /\ pi = PiUpper /\ speed = NoCall

\* No builder has been called.
SnapIdle ==
    /\ width = 0 /\ depth = 0 /\ at_height = 0
    /\ male = NoCall /\ female = NoCall /\ quadrant = NoCall /\ section = NoCall

\* No quadrant of a four-piece variant, base or chamber has been built.
QuadIdle ==
    /\ four_piece = "none" /\ outer_trim = 0
    /\ pieces = [q \in 1..4 |-> NoCall]
    /\ base = NoCall /\ chamber = NoCall /\ adapter = NoCall

(***************************************************************************)
(* The intake tube and its mounting nut (src/manifold_design.py).          *)
(***************************************************************************)
TUBE_LENGTH       == 60
THREAD_LENGTH     == 20
THREAD_PITCH      == <<5, 2>>
THREAD_DEPTH      == <<6, 5>>
NUT_THICKNESS     == 8
NUT_BORE_CLEARANCE == <<3, 10>>
hex_height        == 5

\* The triangular cross-section swept along the helix, drawn on the XZ
\* workplane centred on the helix radius: (0, -0.8 depth), (-0.4 pitch, 0),
\* (0.4 pitch, 0). Its radial extent and its axial extent.
thread_profile(helix_radius) ==
    [ radial_lo |-> RSub(helix_radius, RMul(THREAD_PITCH, <<2, 5>>)),
      radial_hi |-> RAdd(helix_radius, RMul(THREAD_PITCH, <<2, 5>>)),
      axial     |-> RMul(THREAD_DEPTH, <<4, 5>>) ]

\* create_intake_tube: a cylinder of radius TUBE_OD / 2 from z = 0 down to
\* -TUBE_LENGTH, a collar added at the top, and a helical groove cut into
\* the lowest THREAD_LENGTH of the outer wall.
create_intake_tube ==
    [ called |-> TRUE,
      outer  |-> HalfOf(R(TUBE_OD)),
      inner  |-> HalfOf(R(TUBE_ID)),
      collar |-> RAdd(HalfOf(R(TUBE_OD)), R(1)),
      thread |-> [ kind   |-> "groove",
                   pitch  |-> THREAD_PITCH,
                   depth  |-> THREAD_DEPTH,
                   radius |-> RSub(HalfOf(R(TUBE_OD)), HalfOf(THREAD_DEPTH)),
                   from_z |-> -(TUBE_LENGTH - THREAD_LENGTH),
                   length |-> THREAD_LENGTH,
                   profile |-> thread_profile(RSub(HalfOf(R(TUBE_OD)), HalfOf(THREAD_DEPTH))) ] ]

\* create_tube_mounting_nut: base, hex and threaded cylinder, a smooth bore
\* of radius TUBE_OD / 2 + 0.3 cut through all of it, and a helical groove
\* cut into the bore of the threaded cylinder.
create_tube_mounting_nut ==
    [ called |-> TRUE,
      bore   |-> RAdd(HalfOf(R(TUBE_OD)), NUT_BORE_CLEARANCE),
      outer  |-> RAdd(RAdd(HalfOf(R(TUBE_OD)), THREAD_DEPTH), R(2)),
      thread |-> [ kind   |-> "groove",
                   pitch  |-> THREAD_PITCH,
                   depth  |-> THREAD_DEPTH,
                   radius |-> RAdd(RAdd(HalfOf(R(TUBE_OD)), NUT_BORE_CLEARANCE),
                                   HalfOf(THREAD_DEPTH)),
                   from_z |-> WALL_THICKNESS + hex_height,
                   length |-> NUT_THICKNESS,
                   profile |-> thread_profile(RAdd(RAdd(HalfOf(R(TUBE_OD)), NUT_BORE_CLEARANCE),
                                                   HalfOf(THREAD_DEPTH))) ] ]

\* No section of the split base, tube or nut has been built.
SplitGrid == (0..(BASE_SECTIONS_X - 1)) \X (0..(BASE_SECTIONS_X - 1))
PartIdle ==
    /\ sections = [g \in SplitGrid |-> NoCall]
    /\ intake_tube = NoCall /\ nut = NoCall

(***************************************************************************)
(* Specification of the generation entry points.                           *)
(***************************************************************************)
Init == GenInit /\ AreaIdle /\ SnapIdle /\ QuadIdle /\ PartIdle

Next == GenNext

Spec == Init /\ [][Next]_vars

\* A sequential script takes its next step as long as it has one.
FairSpec == Spec /\ WF_vars(Next)

(***************************************************************************)
(* Specification of the area helpers: verify_speed_multiplier of one of    *)
(* the three files is called with a parameter table around the declared    *)
(* one, and with math.pi at either end of its rational enclosure.          *)
(***************************************************************************)
TubeSpread  == 5
WidthSpread == 4

AreaInit ==
    /\ GenIdle
    /\ base_size = MANIFOLD_BASE_SIZE
    /\ SnapIdle
    /\ QuadIdle
    /\ PartIdle
    /\ variant \in {"main", "cadquery", "solidpython"}
    /\ num_tubes = NUM_TUBES_X
    /\ tube_id \in (TUBE_ID - TubeSpread)..(TUBE_ID + TubeSpread)
    /\ sensor_width \in (SENSOR_CHAMBER_WIDTH - WidthSpread)..(SENSOR_CHAMBER_WIDTH + WidthSpread)
    /\ pi \in {PiLower, PiUpper}
    /\ speed = NoCall

call_verify_speed_multiplier ==
    /\ speed = NoCall
    /\ speed' = [called |-> TRUE] @@ verify_speed_multiplier(variant, num_tubes, num_tubes, tube_id, sensor_width, pi)
    /\ UNCHANGED <<variant, num_tubes, sensor_width, pi>>
    /\ UNCHANGED <<genVars, snapVars, quadVars, partVars>>

AreaNext == call_verify_speed_multiplier

SpecArea == AreaInit /\ [][AreaNext]_vars

(***************************************************************************)
(* Specification of the snap-fit builders: each builder is called once, on *)
(* a perimeter drawn from a grid of edge lengths, at one of the heights    *)
(* the part builders pass, and with the base size of the parameter table   *)
(* or a smaller or larger one.                                             *)
(***************************************************************************)
EdgeStep     == 48
MaxEdgeSteps == 8
EdgeLengths  == { EdgeStep * k : k \in 1..MaxEdgeSteps }
SnapHeights  == { 0, MANIFOLD_BASE_HEIGHT + WALL_THICKNESS, SENSOR_CHAMBER_HEIGHT,
                  TRANSITION_LENGTH + WALL_THICKNESS }
\* The sections generate_split_base builds: corner, edge, centre.
SplitSections == { <<0, 0>>, <<1, 0>>, <<1, 1>> }

SnapInit ==
    /\ GenIdle
    /\ tube_id = TUBE_ID
    /\ base_size \in BaseSizes("main")
    /\ AreaIdle
    /\ QuadIdle
    /\ PartIdle
    /\ width \in EdgeLengths
    /\ depth \in EdgeLengths
    /\ at_height \in SnapHeights
    /\ male = NoCall /\ female = NoCall /\ quadrant = NoCall /\ section = NoCall

call_add_male_snap_fit ==
    /\ male = NoCall
    /\ male' = add_male_snap_fit(width, depth, at_height)
    /\ UNCHANGED <<width, depth, at_height, female, quadrant, section>>
    /\ UNCHANGED <<genVars, areaVars, quadVars, partVars>>

call_add_female_snap_fit ==
    /\ female = NoCall
    /\ female' = add_female_snap_fit(width, depth, at_height)
    /\ UNCHANGED <<width, depth, at_height, male, quadrant, section>>
    /\ UNCHANGED <<genVars, areaVars, quadVars, partVars>>

call_create_transition_section_quadrant ==
    /\ quadrant = NoCall
    /\ quadrant' = create_transition_section_quadrant(base_size, sensor_width)
    /\ UNCHANGED <<width, depth, at_height, male, female, section>>
    /\ UNCHANGED <<genVars, areaVars, quadVars, partVars>>

call_create_split_base_section ==
    /\ section = NoCall
    /\ \E s \in SplitSections :
          section' = create_split_base_section(s[1], s[2], base_size)
    /\ UNCHANGED <<width, depth, at_height, male, female, quadrant>>
    /\ UNCHANGED <<genVars, areaVars, quadVars, partVars>>

SnapNext ==
    \/ call_add_male_snap_fit
    \/ call_add_female_snap_fit
    \/ call_create_transition_section_quadrant
    \/ call_create_split_base_section

SpecSnap == SnapInit /\ [][SnapNext]_vars

(***************************************************************************)
(* Specification of the transition quadrants: the four quadrants of one    *)
(* four-piece variant, the symmetric piece of src/manifold_design.py, the  *)
(* base and the sensor chamber are each built once. outer_trim is the      *)
(* declared one, a smaller one, or one around the value at which a         *)
(* quadrant's plate degenerates.                                           *)
(***************************************************************************)
TrimSpread == 4
\* The trim at which x_max - x_min of a four-piece quadrant becomes 0.
DegenerateTrim ==
    (CABINET_WIDTH - 2 * MANIFOLD_OUTER_MARGIN) \div 2 + cadquery_joint_width \div 2
OuterTrims ==
    {0, bottom_margin, cadquery_outer_trim}
        \cup ((DegenerateTrim - TrimSpread)..(DegenerateTrim + TrimSpread))

QuadInit ==
    /\ GenIdle
    /\ tube_id = TUBE_ID
    /\ base_size \in BaseSizes("main")
    /\ AreaIdle
    /\ SnapIdle
    /\ PartIdle
    /\ four_piece \in {"cadquery", "solidpython"}
    /\ outer_trim \in OuterTrims
    /\ pieces = [q \in 1..4 |-> NoCall]
    /\ base = NoCall /\ chamber = NoCall /\ adapter = NoCall

call_create_transition_section_quadrant_cadquery ==
    /\ four_piece = "cadquery"
    /\ \E q \in 1..4 :
          /\ pieces[q] = NoCall
          /\ pieces' = [pieces EXCEPT
                          ![q] = create_transition_section_quadrant_cadquery(q, outer_trim)]
    /\ UNCHANGED <<four_piece, outer_trim, base, chamber, adapter>>
    /\ UNCHANGED <<genVars, areaVars, snapVars, partVars>>

call_create_transition_quadrant ==
    /\ four_piece = "solidpython"
    /\ \E q \in 1..4 :
          /\ pieces[q] = NoCall
          /\ pieces' = [pieces EXCEPT ![q] = create_transition_quadrant(q, outer_trim)]
    /\ UNCHANGED <<four_piece, outer_trim, base, chamber, adapter>>
    /\ UNCHANGED <<genVars, areaVars, snapVars, partVars>>

call_create_manifold_base ==
    /\ base = NoCall
    /\ base' = create_manifold_base(base_size)
    /\ UNCHANGED <<four_piece, outer_trim, pieces, chamber, adapter>>
    /\ UNCHANGED <<genVars, areaVars, snapVars, partVars>>

call_create_sensor_chamber ==
    /\ chamber = NoCall
    /\ chamber' = create_sensor_chamber(sensor_width)
    /\ UNCHANGED <<four_piece, outer_trim, pieces, base, adapter>>
    /\ UNCHANGED <<genVars, areaVars, snapVars, partVars>>

call_create_fan_adapter ==
    /\ adapter = NoCall
    /\ adapter' = create_fan_adapter(sensor_width)
    /\ UNCHANGED <<four_piece, outer_trim, pieces, base, chamber>>
    /\ UNCHANGED <<genVars, areaVars, snapVars, partVars>>

QuadNext ==
    \/ call_create_transition_section_quadrant_cadquery
    \/ call_create_transition_quadrant
    \/ call_create_transition_section_quadrant
    \/ call_create_manifold_base
    \/ call_create_sensor_chamber
    \/ call_create_fan_adapter

SpecQuad == QuadInit /\ [][QuadNext]_vars

(***************************************************************************)
(* Specification of the split base, the intake tube and its nut: each of   *)
(* the nine sections, the tube and the nut is built once, in any order.    *)
(***************************************************************************)
PartInit ==
    /\ GenIdle
    /\ tube_id = TUBE_ID
    /\ base_size \in BaseSizes("split")
    /\ AreaIdle
    /\ SnapIdle
    /\ QuadIdle
    /\ PartIdle

call_create_split_base_section_at ==
    /\ \E g \in SplitGrid :
          /\ sections[g] = NoCall
          /\ sections' = [sections EXCEPT
                            ![g] = create_split_base_section(g[1], g[2], base_size)]
    /\ UNCHANGED <<intake_tube, nut>>
    /\ UNCHANGED <<genVars, areaVars, snapVars, quadVars>>

call_create_intake_tube ==
    /\ intake_tube = NoCall
    /\ intake_tube' = create_intake_tube
    /\ UNCHANGED <<sections, nut>>
    /\ UNCHANGED <<genVars, areaVars, snapVars, quadVars>>

call_create_tube_mounting_nut ==
    /\ nut = NoCall
    /\ nut' = create_tube_mounting_nut
    /\ UNCHANGED <<sections, intake_tube>>
    /\ UNCHANGED <<genVars, areaVars, snapVars, quadVars>>

PartNext ==
    \/ call_create_split_base_section_at
    \/ call_create_intake_tube
    \/ call_create_tube_mounting_nut

SpecParts == PartInit /\ [][PartNext]_vars

(***************************************************************************)
(* Claims about the generation entry points.                               *)
(***************************************************************************)
Final == {"done", "raised", "returned"}

\* C1: generate_all_parts of src/manifold_design.py attempts each of the six
\* parts exactly once, in the fixed order, whatever parts fail: while it runs
\* the parts attempted are the first idx-1 of the list, at the report they are
\* the whole list, and no failure ever leaves the function.
C1_SixPartsAttemptedInOrder ==
    entry = "main" =>
        /\ pc = "parts" => attempted = SubSeq(MainParts, 1, idx - 1)
        /\ pc \in {"report", "done"} => attempted = MainParts
        /\ pc # "raised"

\* The first part failed and the five later ones were attempted all the same.
C1_Witness ==
    /\ entry = "main" /\ pc = "done"
    /\ Len(errors) >= 1 /\ errors[1].part = "manifold_base"
    /\ attempted = MainParts

\* C2: in the cadquery variant every one of the four quadrants is attempted
\* whatever earlier quadrant failed.
C2_EveryQuadrantAttempted ==
    (entry = "cadquery" /\ pc \in {"report", "done"}) =>
        \A i \in FirstQuadrant..LastQuadrant : CadqueryParts[i] \in Range(attempted)

\* C3: in the solidpython variant a failure constructing a part is swallowed:
\* it never leaves generate_all_parts, the remaining parts are constructed and
\* the .scad files of the parts that built are written.
C3_FailureSwallowed ==
    entry = "solidpython" =>
        /\ pc # "raised"
        /\ pc = "done" => /\ attempted = SolidpythonParts
                          /\ written = parts_generated

\* C4: in every entry point a print-bed or speed-multiplier message never
\* blocks generation: once the entry point has ended, every part of it was
\* attempted.
C4_WarningsNeverBlock ==
    (warnings # {} /\ pc \in Final) =>
        Range(attempted) = Range(PartsOf(entry))

\* C5: generate_all_parts of src/manifold_design.py terminates normally at
\* the GENERATION COMPLETE report for every subset of failing parts.
C5_MainReachesReport == (entry = "main") ~> (pc = "done")

\* All six parts failed and the report was still printed, with a count of 0.
C5_Witness ==
    /\ entry = "main" /\ pc = "done"
    /\ Len(errors) = Len(MainParts) /\ reported = 0

(***************************************************************************)
(* Claims about the area helpers.                                          *)
(***************************************************************************)
Declared ==
    /\ tube_id = TUBE_ID /\ num_tubes = NUM_TUBES_X /\ sensor_width = SENSOR_CHAMBER_WIDTH

\* |intake_area / sensor_area - TARGET_SPEED_MULTIPLIER| of a finished call.
Deviation == RAbs(RSub(RDiv(speed.intake_area, speed.sensor_area),
                       R(TARGET_SPEED_MULTIPLIER)))

\* C6: in every variant verify_speed_multiplier warns exactly when
\* |intake_area / sensor_area - TARGET_SPEED_MULTIPLIER| > 0.5, raises nothing
\* and returns the ratio in both cases.
C6_WarnsIffDeviation ==
    speed # NoCall =>
        /\ speed.warned <=> RGt(Deviation, Half)
        /\ ~speed.raised
        /\ speed.result = RDiv(speed.intake_area, speed.sensor_area)

PerimeterEdges == {"+Y", "-Y", "+X", "-X"}

\* The length of the edge a perimeter row lies on, and the coordinate that
\* runs along it.
EdgeLength(e)  == IF e \in {"+Y", "-Y"} THEN width ELSE depth
Along(e, f)    == IF e \in {"+Y", "-Y"} THEN f.at[1] ELSE f.at[2]

\* max(2, floor(L / 60)) and -L/2 + (i + 0.5) * (L / n) in closed form,
\* L * (2i + 1 - n) / (2n), i counted from 0.
ExpectedCount(L)        == IF L \div 60 > 2 THEN L \div 60 ELSE 2
ExpectedCentre(L, n, i) == Lowest(L * (2 * i + 1 - n), 2 * n)

\* C8: for every width, depth and at_height, add_male_snap_fit and
\* add_female_snap_fit stamp the same number of features on each of the four
\* edges, max(2, floor(edge_length / 60)), at the same centre positions
\* -L/2 + (i + 0.5) * (L / n) and with the same rotation angle per edge.
C8_MaleFemaleAligned ==
    (male.called /\ female.called) =>
        \A e \in PerimeterEdges :
            LET n == ExpectedCount(EdgeLength(e))
            IN  /\ Len(male.rows[e]) = n
                /\ Len(female.rows[e]) = n
                /\ \A i \in 1..n :
                      /\ Along(e, male.rows[e][i]) = ExpectedCentre(EdgeLength(e), n, i - 1)
                      /\ male.rows[e][i].at = female.rows[e][i].at
                      /\ male.rows[e][i].angle = female.rows[e][i].angle

\* Both builders ran on a 384 x 48 perimeter: six features on the long
\* edges, two on the short ones.
C8_Witness ==
    /\ male.called /\ female.called
    /\ width = 384 /\ depth = 48
    /\ Len(male.rows["+Y"]) = 6 /\ Len(female.rows["-X"]) = 2

Builders == {male, female, quadrant, section}
TopRows  == {"top+X", "top+Y"}

\* C9 as stated: every row of snap-fit tabs or slots stamped by the
\* perimeter builders, the quadrant (bottom slots, top tabs) and the split
\* base sections holds at least 2 features, for every edge length.
C9_AtLeastTwoPerRow_AsStated ==
    \A b \in Builders : b.called =>
        \A r \in DOMAIN b.rows : Len(b.rows[r]) >= 2

\* C9 amended: every row holds at least 2 features, except the two rows of
\* top tabs of a transition quadrant, which hold max(1, floor(L / 60))
\* features, L the quadrant's share of the chamber edge plus half the joint
\* width: one tab each with the declared parameters.
C9_AtLeastTwoPerRow ==
    /\ \A b \in {male, female, section} : b.called =>
          \A r \in DOMAIN b.rows : Len(b.rows[r]) >= 2
    /\ quadrant.called =>
          /\ \A r \in DOMAIN quadrant.rows \ TopRows : Len(quadrant.rows[r]) >= 2
          /\ \A r \in TopRows : Len(quadrant.rows[r]) = 1

\* A quadrant and a corner section were built, and the perimeter builders
\* ran on a short edge: the quadrant has one tab per top row.
C9_Witness ==
    /\ quadrant.called /\ section.called /\ male.called /\ female.called
    /\ width = 48
    /\ section.piece = <<0, 0>>
    /\ Len(quadrant.rows["top+X"]) = 1
    /\ Len(quadrant.rows["bottom+X"]) >= 2

\* The gap between the tab's and the slot's cross-section on each side
\* (vertices: inner bottom, inner top, outer top, outer bottom; <<x, z>>).
Below(tab, slot) == {RSub(tab[1][2], slot[1][2]), RSub(tab[4][2], slot[4][2])}
Above(tab, slot) == {RSub(slot[2][2], tab[2][2]), RSub(slot[3][2], tab[3][2])}
Inner(tab, slot) == {RSub(tab[1][1], slot[1][1]), RSub(tab[2][1], slot[2][1])}
Outer(tab, slot) == {RSub(slot[3][1], tab[3][1]), RSub(slot[4][1], tab[4][1])}

\* C10: for every base_height the cross-section of create_snap_slot contains
\* the cross-section of create_snap_tab with a margin of SNAP_FIT_CLEARANCE
\* below, above, on the inner face and on the outer face.
C10_ClearanceOnAllSides ==
    (male.called /\ female.called) =>
        \A e \in PerimeterEdges : \A i \in 1..Len(male.rows[e]) :
            i <= Len(female.rows[e]) =>
                LET tab  == male.rows[e][i].solid.polygon
                    slot == female.rows[e][i].solid.polygon
                    c    == Lowest(SNAP_FIT_CLEARANCE[1], SNAP_FIT_CLEARANCE[2])
                IN  /\ Below(tab, slot) = {c}
                    /\ Above(tab, slot) = {c}
                    /\ Inner(tab, slot) = {c}
                    /\ Outer(tab, slot) = {c}

(***************************************************************************)
(* Claims about the transition quadrants.                                  *)
(***************************************************************************)
RectWidth(r) == RSub(r.x_max, r.x_min)
RectDepth(r) == RSub(r.y_max, r.y_min)
DiagonalSq(r) == RAdd(RMul(RectWidth(r), RectWidth(r)), RMul(RectDepth(r), RectDepth(r)))

\* The print bed declared in the file of a variant.
BedX(v) == IF v = "solidpython" THEN MAX_PRINT_X_solidpython ELSE MAX_PRINT_X
BedY(v) == IF v = "solidpython" THEN MAX_PRINT_Y_solidpython ELSE MAX_PRINT_Y
BedDiagonalSq(v) == R(BedX(v) * BedX(v) + BedY(v) * BedY(v))

\* The parameters are the ones the files declare.
DeclaredTrim == outer_trim = cadquery_outer_trim /\ outer_trim = OUTER_TRIM
DeclaredBase == base_size = MANIFOLD_BASE_SIZE /\ sensor_width = SENSOR_CHAMBER_WIDTH

\* C11: for each of the four quadrant descriptors the bottom rectangle the
\* builder computes has positive width and depth and a diagonal not longer
\* than the diagonal of the print bed declared in the same file; so has the
\* bottom rectangle of the symmetric piece.
C11_BottomFitsBedDiagonal ==
    /\ DeclaredTrim =>
          \A q \in 1..4 : pieces[q].called =>
              /\ RGt(RectWidth(pieces[q].bottom), R(0))
              /\ RGt(RectDepth(pieces[q].bottom), R(0))
              /\ RLe(DiagonalSq(pieces[q].bottom), BedDiagonalSq(four_piece))
    /\ (DeclaredBase /\ quadrant.called) =>
          /\ RGt(RectWidth(quadrant.bottom), R(0))
          /\ RGt(RectDepth(quadrant.bottom), R(0))
          /\ RLe(DiagonalSq(quadrant.bottom), BedDiagonalSq("main"))

\* All four quadrants of the cadquery variant and the symmetric piece were
\* built with the declared parameters; quadrant 1 is 219 mm wide.
C11_Witness ==
    /\ DeclaredTrim /\ DeclaredBase /\ four_piece = "cadquery"
    /\ \A q \in 1..4 : pieces[q].called
    /\ quadrant.called
    /\ RectWidth(pieces[1].bottom) = R(219)

\* C12: in every variant each transition quadrant respects the print bed
\* declared in the same file: bottom width at most MAX_PRINT_X, depth at
\* most MAX_PRINT_Y, total height (snap tabs included) at most MAX_PRINT_Z.
C12_QuadrantFitsBedBox ==
    /\ DeclaredTrim =>
          \A q \in 1..4 : pieces[q].called =>
              /\ RLe(RectWidth(pieces[q].bottom), R(BedX(four_piece)))
              /\ RLe(RectDepth(pieces[q].bottom), R(BedY(four_piece)))
              /\ pieces[q].height <= MAX_PRINT_Z
    /\ (DeclaredBase /\ quadrant.called) =>
          /\ RLe(RectWidth(quadrant.bottom), R(BedX("main")))
          /\ RLe(RectDepth(quadrant.bottom), R(BedY("main")))
          /\ quadrant.height <= MAX_PRINT_Z
          /\ \A r \in DOMAIN quadrant.rows : \A i \in 1..Len(quadrant.rows[r]) :
                \A v \in 1..4 :
                    RLe(quadrant.rows[r][i].solid.polygon[v][2], R(MAX_PRINT_Z))

\* Rotation by k quarter turns about Z, of a point and of a rectangle.
Rotate(k, p) ==
    CASE k % 4 = 0 -> p
      [] k % 4 = 1 -> <<RNeg(p[2]), p[1]>>
      [] k % 4 = 2 -> <<RNeg(p[1]), RNeg(p[2])>>
      [] k % 4 = 3 -> <<p[2], RNeg(p[1])>>

RotateRect(k, r) ==
    LET a == Rotate(k, <<r.x_min, r.y_min>>)
        b == Rotate(k, <<r.x_max, r.y_max>>)
    IN  Rect(RMin(a[1], b[1]), RMax(a[1], b[1]), RMin(a[2], b[2]), RMax(a[2], b[2]))

\* The bottom rectangles of the four placements of each variant.
FourPiecePlacements == { pieces[q].bottom : q \in 1..4 }
SymmetricPlacements == { RotateRect(k, quadrant.bottom) : k \in 0..3 }
AllPiecesBuilt      == \A q \in 1..4 : pieces[q].called

Square(side) ==
    Rect(RDiv(RNeg(side), R(2)), RDiv(side, R(2)), RDiv(RNeg(side), R(2)), RDiv(side, R(2)))

RectInside(r, s) ==
    /\ RLe(s.x_min, r.x_min) /\ RLe(r.x_max, s.x_max)
    /\ RLe(s.y_min, r.y_min) /\ RLe(r.y_max, s.y_max)

\* The grid cells cut out by the edges of s and of the rectangles.
Cells(s, rects) ==
    LET xs == {s.x_min, s.x_max} \cup {r.x_min : r \in rects} \cup {r.x_max : r \in rects}
        ys == {s.y_min, s.y_max} \cup {r.y_min : r \in rects} \cup {r.y_max : r \in rects}
        Steps(cs) == { c \in cs \X cs :
                         RLt(c[1], c[2]) /\ ~\E m \in cs : RLt(c[1], m) /\ RLt(m, c[2]) }
    IN  { Rect(x[1], x[2], y[1], y[2]) : x \in Steps(xs), y \in Steps(ys) }

\* The union of the rectangles is exactly s: none leaves s, and every cell
\* of s lies in one of them.
UnionEquals(s, rects) ==
    /\ \A r \in rects : RectInside(r, s)
    /\ \A c \in Cells(s, rects) : RectInside(c, s) => \E r \in rects : RectInside(c, r)

\* Two different rectangles share at most a strip `limit` thick.
OverlapAtMost(limit, rects) ==
    \A r1 \in rects : \A r2 \in rects \ {r1} :
        LET w == RSub(RMin(r1.x_max, r2.x_max), RMax(r1.x_min, r2.x_min))
            d == RSub(RMin(r1.y_max, r2.y_max), RMax(r1.y_min, r2.y_min))
        IN  (RGt(w, R(0)) /\ RGt(d, R(0))) => RLe(RMin(w, d), R(limit))

FourPieceBaseWidth == R(CABINET_WIDTH - 2 * MANIFOLD_OUTER_MARGIN)

\* C13 as stated: the bottom rectangles of the four placements (the four
\* descriptors of a four-piece variant, the four quarter turns of the
\* symmetric piece) cover exactly the base square of side base_width, and
\* two of them overlap by at most the joint overlap.
C13_PlacementsCoverBase_AsStated ==
    /\ (AllPiecesBuilt /\ DeclaredTrim) =>
          /\ UnionEquals(Square(FourPieceBaseWidth), FourPiecePlacements)
          /\ OverlapAtMost(JOINT_OVERLAP, FourPiecePlacements)
    /\ quadrant.called =>
          /\ UnionEquals(Square(R(BaseWidth(base_size))), SymmetricPlacements)
          /\ OverlapAtMost(joint_width, SymmetricPlacements)

\* C13 amended: in the four-piece variants the four bottom rectangles cover
\* exactly the centred square of side base_width - 2 * outer_trim (the base
\* less the strip trimmed from its outer edges), for every outer_trim that
\* leaves each quadrant at least the joint overlap wide (beyond that the
\* interior overlap sticks out past the trimmed outer edge), and two of them
\* overlap by at most the joint overlap; the
\* four quarter turns of the symmetric piece cover the base square of side
\* base_width exactly and do not overlap.
C13_PlacementsCoverBase ==
    /\ (AllPiecesBuilt
          /\ 2 * outer_trim + JOINT_OVERLAP <= CABINET_WIDTH - 2 * MANIFOLD_OUTER_MARGIN) =>
          /\ UnionEquals(Square(RSub(FourPieceBaseWidth, R(2 * outer_trim))),
                         FourPiecePlacements)
          /\ OverlapAtMost(JOINT_OVERLAP, FourPiecePlacements)
    /\ quadrant.called =>
          /\ UnionEquals(Square(R(BaseWidth(base_size))), SymmetricPlacements)
          /\ OverlapAtMost(0, SymmetricPlacements)

\* The four solidpython quadrants and the symmetric piece were built with
\* the declared parameters: the four pieces span 434 mm, not 510.
C13_Witness ==
    /\ AllPiecesBuilt /\ DeclaredTrim /\ four_piece = "solidpython"
    /\ quadrant.called /\ DeclaredBase
    /\ pieces[1].bottom.x_min = R(-217) /\ pieces[4].bottom.x_max = R(217)

\* C14: in the symmetric piece the interior edges lie on the centerlines
\* at both loft end faces, x_min = y_min = 0 at the bottom and
\* top_x_min = top_y_min = 0 at the top, so that its four quarter turns
\* overlap neither at the bottom nor at the top.
C14_InteriorEdgesOnCenterlines ==
    quadrant.called =>
        /\ quadrant.bottom.x_min = R(0) /\ quadrant.bottom.y_min = R(0)
        /\ quadrant.top.x_min = R(0) /\ quadrant.top.y_min = R(0)
        /\ OverlapAtMost(0, SymmetricPlacements)
        /\ OverlapAtMost(0, { RotateRect(k, quadrant.top) : k \in 0..3 })

\* A bolt hole of the symmetric piece after k quarter turns: its axis point
\* and the axis along which it is drilled (a YZ workplane drills along x, an
\* XZ workplane along y; an odd number of quarter turns swaps the two).
TurnedHole(k, h) ==
    LET p    == Rotate(k, <<h.at[1], h.at[2]>>)
        axis == IF (h.plane = "YZ") = (k % 2 = 0) THEN "x" ELSE "y"
    IN  <<p[1], p[2], h.at[3], axis>>

\* The interior plane shared by the copies turned j and j + 1 times: the
\* image under j quarter turns of the half plane x = 0, y > 0.
OnSharedPlane(j, hole) ==
    LET p == Rotate(4 - (j % 4), <<hole[1], hole[2]>>)
    IN  p[1] = R(0) /\ RGt(p[2], R(0)) /\ hole[4] = (IF j % 2 = 0 THEN "x" ELSE "y")

HolesOn(k, j) ==
    { hole \in { TurnedHole(k, quadrant.bolts[i]) : i \in 1..Len(quadrant.bolts) } :
        OnSharedPlane(j, hole) }

\* C15: turning the symmetric piece by 90, 180 and 270 degrees about Z puts
\* its bolt holes so that on each of the four shared interior planes the
\* holes of the two neighbouring copies coincide: same position along the
\* edge, same Z, both drilled across the plane.
C15_BoltHolesCoincideUnderRotation ==
    quadrant.called =>
        \A j \in 0..3 :
            /\ HolesOn(j, j) # {}
            /\ HolesOn(j, j) = HolesOn((j + 1) % 4, j)

\* The declared piece was built: its first hole sits on the x = 0 plane at
\* y = 90, z = 25, and two holes lie on each shared plane.
C15_Witness ==
    /\ quadrant.called /\ DeclaredBase
    /\ quadrant.bolts[1].at = <<R(0), R(90), R(25)>>
    /\ Cardinality(HolesOn(1, 0)) = 2

\* The snap features of the symmetric piece in rows `rs`, each taken over
\* the four quarter turns: <<turn, row, index>>, and where it lands.
QuadrantStamps(rs) ==
    { t \in (0..3) \X rs \X (1..6) : t[3] <= Len(quadrant.rows[t[2]]) }
StampAt(t) == Rotate(t[1], quadrant.rows[t[2]][t[3]].at)

\* The point p lies on edge e of the centred square of side `side`.
OnEdge(e, side, p) ==
    CASE e = "+X" -> p[1] = RDiv(side, R(2))
      [] e = "-X" -> p[1] = RDiv(RNeg(side), R(2))
      [] e = "+Y" -> p[2] = RDiv(side, R(2))
      [] e = "-Y" -> p[2] = RDiv(RNeg(side), R(2))

BottomRows == {"bottom+X", "bottom+Y"}

\* C16: the centres of the female slots on the bottom outer edges of the
\* symmetric piece, taken over its four quarter turns, are exactly the
\* centres of the male tabs create_manifold_base stamps on the base's top
\* perimeter: same count per edge, same positions along each edge.
C16_QuadrantSlotsMatchBaseTabs ==
    (quadrant.called /\ base.called /\ DeclaredBase) =>
        \A e \in PerimeterEdges :
            LET side  == R(BaseWidth(base_size))
                slots == { t \in QuadrantStamps(BottomRows) : OnEdge(e, side, StampAt(t)) }
                tabs  == { base.rows[e][i].at : i \in 1..Len(base.rows[e]) }
            IN  /\ Cardinality(slots) = Len(base.rows[e])
                /\ { StampAt(t) : t \in slots } = tabs
                /\ Cardinality(tabs) = Len(base.rows[e])

\* The declared base and piece were built: six tabs per base edge, three
\* slots per quadrant edge.
C16_Witness ==
    /\ quadrant.called /\ base.called /\ DeclaredBase
    /\ Len(base.rows["+X"]) = 6
    /\ Len(quadrant.rows["bottom+X"]) = 3

\* The XY footprint of a stamped solid after the piece it belongs to was
\* turned k quarter turns: the cross-section spans its x range along the
\* local X axis, the extrusion spans -extrude..extrude along the local Y
\* axis; the solid is rotated by its angle, translated, and turned.
Footprint(k, stamp) ==
    LET xs    == { stamp.solid.polygon[v][1] : v \in 1..4 }
        lo    == CHOOSE x \in xs : \A y \in xs : RLe(x, y)
        hi    == CHOOSE x \in xs : \A y \in xs : RLe(y, x)
        local == Rect(lo, hi, RNeg(stamp.solid.extrude), stamp.solid.extrude)
        box   == RotateRect((stamp.angle \div 90) % 4, local)
        moved == Rect(RAdd(box.x_min, stamp.at[1]), RAdd(box.x_max, stamp.at[1]),
                      RAdd(box.y_min, stamp.at[2]), RAdd(box.y_max, stamp.at[2]))
    IN  RotateRect(k, moved)

\* The extent of a footprint along edge e, as <<from, to>>.
ExtentAlong(e, r) == IF e \in {"+X", "-X"} THEN <<r.y_min, r.y_max>> ELSE <<r.x_min, r.x_max>>
ExtentInside(a, b) == RLe(b[1], a[1]) /\ RLe(a[2], b[2])

\* C17: the male tabs on the top outer edges of the symmetric piece, taken
\* over its four quarter turns, mate with the female slots
\* create_sensor_chamber cuts on its bottom perimeter: as many tabs as slots
\* on each chamber edge, and each tab's extent along the edge lies inside
\* the extent of a slot.
C17_QuadrantTabsMateWithChamber ==
    (quadrant.called /\ chamber.called /\ DeclaredBase) =>
        \A e \in PerimeterEdges :
            LET side  == R(sensor_width + 2 * WALL_THICKNESS)
                tabs  == { t \in QuadrantStamps(TopRows) : OnEdge(e, side, StampAt(t)) }
                slots == chamber.bottom.rows[e]
            IN  /\ Cardinality(tabs) = Len(slots)
                /\ \A t \in tabs : \E i \in 1..Len(slots) :
                      ExtentInside(
                          ExtentAlong(e, Footprint(t[1], quadrant.rows[t[2]][t[3]])),
                          ExtentAlong(e, Footprint(0, slots[i])))

\* The bolt holes of four-piece quadrant q on the x = 0 plane ("YZ") or the
\* y = 0 plane ("XZ"): position along the edge and height.
PieceHoles(q, plane) ==
    { IF plane = "YZ" THEN <<pieces[q].bolts[i].at[2], pieces[q].bolts[i].at[3]>>
                      ELSE <<pieces[q].bolts[i].at[1], pieces[q].bolts[i].at[3]>> :
        i \in { j \in 1..Len(pieces[q].bolts) :
                  /\ pieces[q].bolts[j].plane = plane
                  /\ pieces[q].bolts[j].at[IF plane = "YZ" THEN 1 ELSE 2] = R(0) } }

\* The four pairs of adjacent quadrants and the plane each pair shares:
\* 1 front-left, 2 front-right, 3 back-left, 4 back-right.
AdjacentPairs == { <<1, 2, "YZ">>, <<3, 4, "YZ">>, <<1, 3, "XZ">>, <<2, 4, "XZ">> }

\* C18: in the four-piece variants every quadrant gets bolt holes on each of
\* its two interior edges (the x = 0 plane and the y = 0 plane), and for each
\* of the four pairs of adjacent quadrants the holes of the two quadrants on
\* their shared plane coincide.
C18_EveryInteriorEdgeBolted ==
    (AllPiecesBuilt /\ DeclaredTrim) =>
        /\ \A q \in 1..4 : PieceHoles(q, "YZ") # {} /\ PieceHoles(q, "XZ") # {}
        /\ \A pr \in AdjacentPairs :
              /\ PieceHoles(pr[1], pr[3]) # {}
              /\ PieceHoles(pr[1], pr[3]) = PieceHoles(pr[2], pr[3])

C20_SnapsOutsideBoltsInside ==
    quadrant.called =>
        /\ \A r \in DOMAIN quadrant.rows : \A i \in 1..Len(quadrant.rows[r]) :
              LET s    == quadrant.rows[r][i]
                  f    == Footprint(0, s)
                  face == IF r \in BottomRows THEN quadrant.bottom ELSE quadrant.top
              IN  /\ IF r \in {"bottom+X", "top+X"} THEN s.at[1] = face.x_max
                                                    ELSE s.at[2] = face.y_max
                  /\ RGt(f.x_min, R(0)) /\ RGt(f.y_min, R(0))
        /\ \A i \in 1..Len(quadrant.bolts) :
              LET h == quadrant.bolts[i]
              IN  /\ \/ h.plane = "YZ" /\ h.at[1] = R(0)
                        /\ RGt(h.at[2], R(0)) /\ RLt(h.at[2], quadrant.bottom.y_max)
                     \/ h.plane = "XZ" /\ h.at[2] = R(0)
                        /\ RGt(h.at[1], R(0)) /\ RLt(h.at[1], quadrant.bottom.x_max)
                  /\ RGt(h.at[3], R(0)) /\ RLt(h.at[3], R(quadrant.height))

C20_Witness ==
    /\ quadrant.called
    /\ DeclaredBase
    /\ Len(quadrant.bolts) = 2 * symmetric_num_bolts
    /\ quadrant.rows["bottom+X"][1].at = <<R(180), R(30)>>
    /\ quadrant.rows["top+Y"][1].at = <<R(11), R(24)>>

(***************************************************************************)
(* Further claims about the symmetric quadrant.                            *)
(***************************************************************************)
\* A bolt hole in its wall's own coordinates: u along the edge, v = z.
HoleU(h) == IF h.plane = "YZ" THEN h.at[2] ELSE h.at[1]
HoleV(h) == h.at[3]

\* The squared distance from point (u, v) to rectangle r (0 inside it).
DistSqToRect(u, v, r) ==
    LET du == RMax(R(0), RMax(RSub(r.x_min, u), RSub(u, r.x_max)))
        dv == RMax(R(0), RMax(RSub(r.y_min, v), RSub(v, r.y_max)))
    IN  RAdd(RMul(du, du), RMul(dv, dv))

\* The outer face of the tapering wall the interior wall ends at, at height
\* z: the loft runs straight from the bottom rectangle to the top rectangle.
OuterFaceAt(z) ==
    RSub(quadrant.bottom.x_max,
         RDiv(RMul(RSub(quadrant.bottom.x_max, quadrant.top.x_max), z), R(quadrant.height)))

\* C24: in the symmetric piece every bolt hole lies in the part of the
\* interior wall left solid by the airflow cutouts: its centre is below
\* TRANSITION_LENGTH / 2, and its circle of radius 2.5 meets neither the
\* rectangular lower cutout, nor the triangular upper cutout (which lies
\* wholly above the circle), nor the region beyond the tapering outer wall.
C24_BoltHolesInSolidWall ==
    (quadrant.called /\ DeclaredBase) =>
        \A i \in 1..Len(quadrant.bolts) :
            LET h  == quadrant.bolts[i]
                r  == quadrant.hole_radius
                c  == quadrant.cutouts
                up == RAdd(HoleV(h), r)
            IN  /\ RLt(HoleV(h), HalfOf(R(TRANSITION_LENGTH)))
                /\ RGt(RSub(HoleV(h), r), R(0))
                /\ RGt(DistSqToRect(HoleU(h), HoleV(h), c.rect), RMul(r, r))
                /\ \A k \in 1..Len(c.tri) : RLt(up, c.tri[k][2])
                /\ RLt(RAdd(HoleU(h), r), RSub(OuterFaceAt(up), R(WALL_THICKNESS)))

C24_Witness ==
    /\ quadrant.called /\ DeclaredBase
    /\ quadrant.cutouts.rect = Rect(R(-3), R(75), R(0), R(75))
    /\ \E i \in 1..Len(quadrant.bolts) :
          HoleU(quadrant.bolts[i]) = R(90) /\ HoleV(quadrant.bolts[i]) = R(50)

\* The angle of a stamp of the symmetric piece once the piece is turned
\* t[1] quarter turns, in 0..359.
TurnedAngle(t) == (quadrant.rows[t[2]][t[3]].angle + 90 * t[1]) % 360

\* C25: for each outer edge and each of the four quarter-turn placements of
\* the symmetric piece, the angle of its bottom slot composed with the
\* placement equals the angle add_male_snap_fit gives the base tab on the
\* same edge of the base (+Y: 0, -Y: 180, +X: 90, -X: -90).
C25_SlotAnglesMatchBaseTabs ==
    (quadrant.called /\ base.called) =>
        \A e \in PerimeterEdges :
            \A t \in QuadrantStamps(BottomRows) :
                OnEdge(e, R(BaseWidth(base_size)), StampAt(t)) =>
                    \A i \in 1..Len(base.rows[e]) :
                        TurnedAngle(t) = base.rows[e][i].angle % 360

\* The top rectangles of the four quarter-turn placements.
SymmetricTopPlacements == { RotateRect(k, quadrant.top) : k \in 0..3 }

\* C29: the footprints of the stacked parts of src/manifold_design.py agree
\* at every interface: the bottom rectangles of the four turned quadrants
\* together span exactly the base's base_width x base_depth, their top
\* rectangles together span exactly the chamber_size square of
\* create_sensor_chamber, and the bottom of create_fan_adapter has that
\* chamber_size too.
C29_FootprintsAgree ==
    (quadrant.called /\ base.called /\ chamber.called /\ adapter.called) =>
        /\ base.base_width = base.base_depth
        /\ UnionEquals(Square(R(base.base_width)), SymmetricPlacements)
        /\ UnionEquals(Square(R(chamber.chamber_size)), SymmetricTopPlacements)
        /\ adapter.bottom_size = chamber.chamber_size

C29_Witness ==
    /\ quadrant.called /\ base.called /\ chamber.called /\ adapter.called
    /\ DeclaredBase
    /\ base.base_width = 360
    /\ chamber.chamber_size = 48
    /\ adapter.bottom_size = 48
    /\ quadrant.top = Rect(R(-2), R(24), R(-2), R(24))

(***************************************************************************)
(* Further claims about the four-piece quadrants.                          *)
(***************************************************************************)
\* The solid strip left between the cutout and the outer edge of quadrant q
\* along x and along y.
OuterMarginX(q) ==
    IF q \in {2, 4} THEN RSub(pieces[q].bottom.x_max, pieces[q].cutout.inner.x_max)
                    ELSE RSub(pieces[q].cutout.inner.x_min, pieces[q].bottom.x_min)
OuterMarginY(q) ==
    IF q \in {3, 4} THEN RSub(pieces[q].bottom.y_max, pieces[q].cutout.inner.y_max)
                    ELSE RSub(pieces[q].cutout.inner.y_min, pieces[q].bottom.y_min)

\* C23: in the four-piece builders with the declared parameters
\* (outer_trim = 38, bottom_margin = 15), whenever the bottom-plate cutout
\* is made the plate keeps a solid sealing margin at least bottom_margin
\* wide along each outer edge of the quadrant.
C23_SealingMarginKept ==
    DeclaredTrim =>
        \A q \in 1..4 : (pieces[q].called /\ pieces[q].cutout.cut) =>
            /\ RLe(R(bottom_margin), OuterMarginX(q))
            /\ RLe(R(bottom_margin), OuterMarginY(q))

\* C28: in the cadquery four-piece builder (base 510, bottom_margin 15,
\* joint_width 4), for every quadrant and every outer_trim >= 0, the cutout
\* is skipped only when the quadrant's own bottom rectangle has non-positive
\* width or depth: no trim gives a quadrant with a positive footprint and a
\* solid bottom plate.
C28_SolidPlateOnlyWhenDegenerate ==
    four_piece = "cadquery" =>
        \A q \in 1..4 : (pieces[q].called /\ ~pieces[q].cutout.cut) =>
            \/ RLe(RectWidth(pieces[q].bottom), R(0))
            \/ RLe(RectDepth(pieces[q].bottom), R(0))

C28_Witness ==
    /\ four_piece = "cadquery"
    /\ \E q \in 1..4 :
          /\ pieces[q].called /\ ~pieces[q].cutout.cut
          /\ outer_trim > DegenerateTrim
          /\ RLt(RectWidth(pieces[q].bottom), R(0))
    /\ \E q \in 1..4 : pieces[q].called /\ pieces[q].quadrant = 1

(***************************************************************************)
(* Further claims about generate_all_parts of src/manifold_design.py.      *)
(***************************************************************************)
Failed == { errors[i].part : i \in DOMAIN errors }
Succeeded(n) == n \notin Failed

\* C22: in generate_all_parts of src/manifold_design.py, parts_generated
\* holds exactly the names of the parts whose build and export both
\* completed without exception, each once and in generation order; a part
\* is recorded only after its export returned, and the count reported at
\* the end is the number of such parts.
C22_RecordedIffBuiltAndExported ==
    entry = "main" =>
        /\ parts_generated = SelectSeq(attempted, Succeeded)
        /\ parts_generated = written
        /\ \A i, j \in DOMAIN parts_generated :
              parts_generated[i] = parts_generated[j] => i = j
        /\ pc = "done" =>
              /\ reported = Len(parts_generated)
              /\ reported = Len(MainParts) - Len(errors)

C22_Witness ==
    /\ entry = "main" /\ pc = "done"
    /\ parts_generated = << "manifold_base", "manifold_sensor_chamber", "tube_mounting_nut" >>
    /\ \E i, j \in DOMAIN errors :
          errors[i].at = "build_raises" /\ errors[j].at = "export_raises"
    /\ reported = 3

(***************************************************************************)
(* Claims about the split base.                                            *)
(***************************************************************************)
PinEdges(p, kind) == { e \in DOMAIN p.pins : p.pins[e] = kind }
Opposite(e) ==
    CASE e = "+X" -> "-X" [] e = "-X" -> "+X" [] e = "+Y" -> "-Y" [] e = "-Y" -> "+Y"
TwoAdjacent(es) == Cardinality(es) = 2 /\ \A e \in es : Opposite(e) \notin es

\* C21: the alignment features of create_split_base_section follow the
\* scheme of its docstring: the corner piece carries male pins on exactly 2
\* adjacent edges, the edge piece a female hole on 1 edge and male pins on 2
\* adjacent edges, the center piece female holes on all 4 edges.
C21_AlignmentFollowsDocstring ==
    /\ sections[<<0, 0>>].called =>
          /\ TwoAdjacent(PinEdges(sections[<<0, 0>>], "male"))
          /\ PinEdges(sections[<<0, 0>>], "female") = {}
    /\ sections[<<1, 0>>].called =>
          /\ Cardinality(PinEdges(sections[<<1, 0>>], "female")) = 1
          /\ TwoAdjacent(PinEdges(sections[<<1, 0>>], "male"))
    /\ sections[<<1, 1>>].called =>
          /\ PinEdges(sections[<<1, 1>>], "female") = PerimeterEdges
          /\ PinEdges(sections[<<1, 1>>], "male") = {}

\* The centre of section g in the coordinates of the whole base, and the
\* nine tube centres along one axis.
SectionOffset(k) ==
    RAdd(RAdd(RNeg(HalfOf(R(BaseWidth(base_size)))),
              RMul(R(k), RDiv(R(BaseWidth(base_size)), R(BASE_SECTIONS_X)))),
         HalfOf(RDiv(R(BaseWidth(base_size)), R(BASE_SECTIONS_X))))
TubeCentres ==
    { RAdd(RAdd(RNeg(HalfOf(R(BaseWidth(base_size)))), R(WALL_THICKNESS + TUBE_OD)),
           RMul(R(i), RDiv(R(BaseWidth(base_size) - 2 * WALL_THICKNESS - 2 * TUBE_OD),
                           R(NUM_TUBES_X - 1)))) : i \in 0..(NUM_TUBES_X - 1) }
BossRadius == RAdd(HalfOf(R(TUBE_OD)), R(3))

\* C26: in the 3 x 3 split base with the declared base size, each of the
\* nine sections is given exactly one tube, that tube is one of the nine
\* tube centres of the base, and the boss circle of radius TUBE_OD / 2 + 3
\* around it lies strictly inside the section.
C26_OneTubePerSection ==
    base_size = MANIFOLD_BASE_SIZE =>
        \A g \in SplitGrid : sections[g].called =>
            /\ Len(sections[g].tubes) = 1
            /\ RAdd(sections[g].tubes[1][1], SectionOffset(g[1])) \in TubeCentres
            /\ RAdd(sections[g].tubes[1][2], SectionOffset(g[2])) \in TubeCentres
            /\ \A c \in 1..2 :
                  RLt(RAdd(RAbs(sections[g].tubes[1][c]), BossRadius),
                      HalfOf(sections[g].width))

C26_Witness ==
    /\ base_size = MANIFOLD_BASE_SIZE
    /\ \A g \in SplitGrid : sections[g].called
    /\ sections[<<0, 0>>].tubes = << <<R(-19), R(-19)>> >>
    /\ sections[<<2, 1>>].tubes = << <<R(19), R(0)>> >>

\* Edge e of a piece after k quarter turns counter-clockwise.
RECURSIVE TurnEdge(_, _)
TurnEdge(k, e) ==
    IF k = 0 THEN e
    ELSE TurnEdge(k - 1, CASE e = "+X" -> "+Y" [] e = "+Y" -> "-X"
                           [] e = "-X" -> "-Y" [] e = "-Y" -> "+X")

\* The edges of grid position g on the perimeter of the base, and the
\* edges it shares with a neighbouring section.
OuterEdges(g) ==
    (IF g[1] = 0 THEN {"-X"} ELSE {}) \cup (IF g[1] = BASE_SECTIONS_X - 1 THEN {"+X"} ELSE {})
    \cup (IF g[2] = 0 THEN {"-Y"} ELSE {}) \cup (IF g[2] = BASE_SECTIONS_X - 1 THEN {"+Y"} ELSE {})
InteriorEdges(g) == PerimeterEdges \ OuterEdges(g)

BoltEdges(p) == DOMAIN p.holes \cup DOMAIN p.pins
SnapEdges(p) == DOMAIN p.rows

\* The grid positions a piece is meant for: the four corners for the corner
\* piece (0,0), the four edge-middles for the edge piece (1,0).
PositionsOf(g) == { h \in SplitGrid : Cardinality(OuterEdges(h)) = Cardinality(OuterEdges(g)) }

\* C27: for the corner piece (0,0) and the edge piece (1,0), and for each
\* grid position of that kind, some rotation by a multiple of 90 degrees
\* puts the piece's bolt/alignment edges exactly on the interior edges of
\* the position and its snap-fit edges exactly on the outer edges; so no
\* edge of a piece carries both bolts and snap tabs.
C27_PiecesFitEveryPosition ==
    \A g \in { <<0, 0>>, <<1, 0>> } : sections[g].called =>
        /\ BoltEdges(sections[g]) \cap SnapEdges(sections[g]) = {}
        /\ \A h \in PositionsOf(g) : \E k \in 0..3 :
              /\ { TurnEdge(k, e) : e \in BoltEdges(sections[g]) } = InteriorEdges(h)
              /\ { TurnEdge(k, e) : e \in SnapEdges(sections[g]) } = OuterEdges(h)

(***************************************************************************)
(* Claims about the intake tube and its nut.                               *)
(***************************************************************************)
\* A helical groove narrower than the pitch leaves the wall standing between
\* its turns, so the threaded part of the tube is as wide as the tube and
\* the threaded part of the nut as narrow as the bore.
ThreadedOuterMax(t) ==
    IF RLt(t.thread.profile.axial, t.thread.pitch) THEN t.outer
    ELSE RMin(t.outer, t.thread.profile.radial_lo)
ThreadedInnerMin(n) ==
    IF RLt(n.thread.profile.axial, n.thread.pitch) THEN n.bore
    ELSE RMax(n.bore, n.thread.profile.radial_hi)

\* C30: the nut's internal thread matches the tube's external thread so
\* that the nut screws onto the tube: both use THREAD_PITCH and
\* THREAD_DEPTH, and the smallest inner radius of the nut's threaded
\* section is smaller than the largest outer radius of the tube's threaded
\* section.
C30_NutThreadEngagesTube ==
    (intake_tube.called /\ nut.called) =>
        /\ intake_tube.thread.pitch = THREAD_PITCH /\ nut.thread.pitch = THREAD_PITCH
        /\ intake_tube.thread.depth = THREAD_DEPTH /\ nut.thread.depth = THREAD_DEPTH
        /\ RLt(ThreadedInnerMin(nut), ThreadedOuterMax(intake_tube))

====
